---- MODULE Spec2Model ----
(***************************************************************************)
(* Model of the CSV merge pipeline of collecte-csv-merger                  *)
(* (src/utils/csv-logic.ts: processCsvFiles, exportToCsv), of its callers  *)
(* (src/App.tsx: handleProcess, handleCsvDownload) and of the              *)
(* classification and pagination of src/utils/excel-processor.ts           *)
(* (processWithExcelLogic, assignPageNumbers).                             *)
(*                                                                         *)
(* Text is modelled as a sequence of one-character strings, so that        *)
(* String.prototype.trim, toLowerCase and the template literal that builds *)
(* internalKey are computed character by character.                        *)
(***************************************************************************)
EXTENDS Integers, Sequences, FiniteSets, TLC

VARIABLES
    nFiles,               \* files.length of the call
    texts,                \* the rows of the text of each file read so far, blank lines included
    files,                \* parseResult.data of the files read so far (files[0..i-1])
    caseInsensitive,      \* argument of processCsvFiles
    preserveOrder,        \* argument of processCsvFiles
    pc,                   \* "parse": in the for loop; "done": the promise has resolved
    i,                    \* loop index of the for loop
    allRows,              \* let allRows
    globalSchema,         \* let globalSchema
    allRowsCount,         \* let allRowsCount
    errors,               \* const errors
    doneCol,              \* const doneCol: its position in globalSchema, 0 for undefined
    assetNumberCol,       \* const assetNumberCol: likewise
    sortedData,           \* processedData after step 3 (sort)
    seen,                 \* const seen of step 4, as it is after the forEach
    combinedDeduped,      \* ProcessedResult.combinedDeduped
    done,                 \* ProcessedResult.done
    todo,                 \* ProcessedResult.todo
    hasDoneColumn,        \* ProcessedResult.hasDoneColumn
    hasAssetNumberColumn, \* ProcessedResult.hasAssetNumberColumn
    val,                  \* argument of one getSortPriority call
    priority,             \* value returned by that call (0: not called yet)
    tab,                  \* argument `type` of handleCsvDownload ("none": not called)
    csvContent,           \* exportToCsv: the fields and data handed to Papa.unparse
    equipment,            \* argument of assignPageNumbers
    result,               \* const result of assignPageNumbers, as returned
    data,                 \* argument of processWithExcelLogic
    processed,            \* const processed of processWithExcelLogic
    byStatus,             \* const byStatus of processWithExcelLogic
    heap,                 \* the ProcessedEquipment objects that exist, by reference
    excelProcessed,       \* App: const excelProcessed, as references into heap
    withPageNumbers,      \* App: const withPageNumbers, as references into heap
    selectedFiles,        \* App: state `files`
    running,              \* App: the handleProcess calls awaiting processCsvFiles
    appResult,            \* App: state `result`
    excelResult,          \* App: state `excelResult`
    renders               \* App: how many times files or caseInsensitive changed

vars == <<nFiles, texts, files, caseInsensitive, preserveOrder, pc, i, allRows,
          globalSchema, allRowsCount, errors, doneCol, assetNumberCol, sortedData,
          seen, combinedDeduped, done, todo, hasDoneColumn, hasAssetNumberColumn,
          val, priority, tab, csvContent, equipment, result, data, processed,
          byStatus, heap, excelProcessed, withPageNumbers, selectedFiles, running,
          appResult, excelResult, renders>>

pipelineVars == <<nFiles, texts, files, caseInsensitive, preserveOrder, pc, i, allRows,
                  globalSchema, allRowsCount, errors, doneCol, assetNumberCol,
                  sortedData, seen, combinedDeduped, done, todo, hasDoneColumn,
                  hasAssetNumberColumn>>

exportVars == <<tab, csvContent>>
pageVars == <<equipment, result>>
excelVars == <<data, processed, byStatus>>
numberingVars == <<heap, excelProcessed, withPageNumbers>>
appVars == <<selectedFiles, running, appResult, excelResult, renders>>

-----------------------------------------------------------------------------
(* Bounds of the model *)

MaxFiles == 2      \* at most this many files in one call
MaxRows == 3       \* at most this many data rows over all files of one call
MaxSchemaRows == 2 \* the same, for the files that exercise the key construction
MaxValLen == 4     \* longest status value given to getSortPriority alone
MaxExportLines == 3 \* at most this many lines over all files of a call that is exported
MaxEquipment == 3  \* at most this many records given to assignPageNumbers
MaxExcelRows == 2  \* at most this many records given to processWithExcelLogic
MaxConditionRows == 1 \* the same, for the rows that carry condition markers
MaxObjects == 2    \* at most this many objects returned by processWithExcelLogic
MaxRenders == 3    \* at most this many changes of the file list
MaxCaseRows == 3   \* the same as MaxRows, for the files that differ in letter case

-----------------------------------------------------------------------------
(* Text *)

EmptyText == <<>>

\* The characters String.prototype.trim removes, among those the model uses.
WhiteSpace == {" ", "\t"}

RECURSIVE TrimStart(_)
TrimStart(s) ==
    IF s = <<>> THEN s
    ELSE IF Head(s) \in WhiteSpace THEN TrimStart(Tail(s)) ELSE s

RECURSIVE TrimEnd(_)
TrimEnd(s) ==
    IF s = <<>> THEN s
    ELSE IF s[Len(s)] \in WhiteSpace THEN TrimEnd(SubSeq(s, 1, Len(s) - 1)) ELSE s

Trim(s) == TrimEnd(TrimStart(s))

UpperCaseLetters ==
    <<"A", "B", "C", "D", "E", "F", "G", "H", "I", "J",
      "K", "L", "M", "N", "O", "P", "Q", "R", "S", "T",
      "U", "V", "W", "X", "Y", "Z", "É">>
LowerCaseLetters ==
    <<"a", "b", "c", "d", "e", "f", "g", "h", "i", "j",
      "k", "l", "m", "n", "o", "p", "q", "r", "s", "t",
      "u", "v", "w", "x", "y", "z", "é">>

UpperToLower ==
    [c \in {UpperCaseLetters[k] : k \in 1..Len(UpperCaseLetters)} |->
        LowerCaseLetters[CHOOSE k \in 1..Len(UpperCaseLetters) : UpperCaseLetters[k] = c]]

ToLowerCase(s) ==
    [k \in 1..Len(s) |-> IF s[k] \in DOMAIN UpperToLower THEN UpperToLower[s[k]] ELSE s[k]]

DigitChars == <<"0", "1", "2", "3", "4", "5", "6", "7", "8", "9">>

\* Number::toString of a non-negative integer.
RECURSIVE NumberToString(_)
NumberToString(n) ==
    IF n < 10 THEN <<DigitChars[n + 1]>>
    ELSE NumberToString(n \div 10) \o <<DigitChars[(n % 10) + 1]>>

-----------------------------------------------------------------------------
(* String literals of the source *)

DoneLiteral == <<"D", "o", "n", "e", "?">>
AssetNumberLiteral == <<"A", "s", "s", "e", "t", " ", "n", "u", "m", "b", "e", "r">>
OccLiteral == <<"_", "_", "o", "c", "c">>
YesLiteral == <<"Y", "e", "s">>
NlpLiteral == <<"N", "l", "p">>
NoLiteral == <<"N", "o">>
MissingDone == "Missing column: Done?"
MissingAssetNumber == "Missing column: Asset number (dedupe skipped)"

\* Object.prototype.__proto__, the accessor every object literal inherits,
\* and the text String(Object.prototype) yields.
ProtoName == <<"_", "_", "p", "r", "o", "t", "o", "_", "_">>
ObjectPrototypeText ==
    <<"[", "o", "b", "j", "e", "c", "t", " ", "O", "b", "j", "e", "c", "t", "]">>

-----------------------------------------------------------------------------
(* Step 1 of processCsvFiles: local schema, global schema, row objects *)

\* counts[displayName] of the object literal `counts`: an own property when
\* the name was counted before, otherwise undefined (0 here), except for the
\* name __proto__, which reads the inherited accessor and is never stored.
CountOf(counts, displayName) ==
    IF displayName \in DOMAIN counts THEN counts[displayName] ELSE 0

\* One ColumnInfo.  occurrenceIndex is kept in the text form the template
\* literal gives it: the decimal digits of the count, or the text of
\* Object.prototype for the header name __proto__.
ColumnInfo(displayName, occurrenceText) ==
    [displayName |-> displayName,
     occurrenceIndex |-> occurrenceText,
     internalKey |-> displayName \o OccLiteral \o occurrenceText]

\* headerRow.forEach(...) : the rest of the header row, the counts so far
\* and the local schema so far.
RECURSIVE LocalSchemaFrom(_, _, _)
LocalSchemaFrom(headerRest, counts, localSchema) ==
    IF headerRest = <<>> THEN localSchema
    ELSE LET displayName == Head(headerRest)
         IN  IF displayName = ProtoName
             THEN LocalSchemaFrom(Tail(headerRest), counts,
                      Append(localSchema, ColumnInfo(displayName, ObjectPrototypeText)))
             ELSE LET n == CountOf(counts, displayName) + 1
                      counts1 == [d \in DOMAIN counts \cup {displayName} |->
                                     IF d = displayName THEN n ELSE counts[d]]
                  IN  LocalSchemaFrom(Tail(headerRest), counts1,
                          Append(localSchema, ColumnInfo(displayName, NumberToString(n))))

LocalSchema(headerRow) == LocalSchemaFrom(headerRow, <<>>, <<>>)

InternalKeys(schema) == {schema[k].internalKey : k \in 1..Len(schema)}

\* localSchema.forEach(localCol => if (!globalSchema.find(...)) push)
RECURSIVE AppendMissing(_, _)
AppendMissing(schema, localRest) ==
    IF localRest = <<>> THEN schema
    ELSE IF Head(localRest).internalKey \in InternalKeys(schema)
         THEN AppendMissing(schema, Tail(localRest))
         ELSE AppendMissing(Append(schema, Head(localRest)), Tail(localRest))

\* "Merge into global schema": the test is on the loop index, not on
\* whether the schema is still empty.
MergeSchema(index, schema, localSchema) ==
    IF index = 0 THEN localSchema ELSE AppendMissing(schema, localSchema)

\* localSchema.findIndex(l => l.internalKey === key), 1-based; 0 when absent.
FindIndex(localSchema, key) ==
    IF key \in InternalKeys(localSchema)
    THEN CHOOSE k \in 1..Len(localSchema) :
            /\ localSchema[k].internalKey = key
            /\ \A m \in 1..(k - 1) : localSchema[m].internalKey # key
    ELSE 0

\* row.every(cell => !cell || cell.trim().length === 0)
IsFullyEmpty(row) ==
    \A k \in 1..Len(row) : row[k] = EmptyText \/ Len(Trim(row[k])) = 0

\* The rowObj built for one accepted data row: one property per internalKey
\* of the global schema as it is when the row is read.
RowObj(schema, localSchema, row) ==
    [key \in InternalKeys(schema) |->
        LET localIndex == FindIndex(localSchema, key)
        IN  IF localIndex # 0 /\ localIndex <= Len(row) THEN row[localIndex] ELSE EmptyText]

Accepted(row) == ~(IsFullyEmpty(row) \/ Len(row) = 0)

\* dataRows.forEach(...) : the row objects pushed to allRows, in order.
RECURSIVE RowObjs(_, _, _)
RowObjs(schema, localSchema, dataRows) ==
    IF dataRows = <<>> THEN <<>>
    ELSE IF Accepted(Head(dataRows))
         THEN <<RowObj(schema, localSchema, Head(dataRows))>>
                  \o RowObjs(schema, localSchema, Tail(dataRows))
         ELSE RowObjs(schema, localSchema, Tail(dataRows))

\* row[key] || ""
Cell(row, key) == IF key \in DOMAIN row THEN row[key] ELSE EmptyText

-----------------------------------------------------------------------------
(* Steps 2 to 5 of processCsvFiles *)

\* The same search with only the trailing blanks of the name removed.
FindColumnTrimEndOnly(schema, name) ==
    IF \E k \in 1..Len(schema) : TrimEnd(schema[k].displayName) = name
    THEN CHOOSE k \in 1..Len(schema) :
            /\ TrimEnd(schema[k].displayName) = name
            /\ \A m \in 1..(k - 1) : TrimEnd(schema[m].displayName) # name
    ELSE 0

\* The same search with only the leading blanks of the name removed.
FindColumnTrimStartOnly(schema, name) ==
    IF \E k \in 1..Len(schema) : TrimStart(schema[k].displayName) = name
    THEN CHOOSE k \in 1..Len(schema) :
            /\ TrimStart(schema[k].displayName) = name
            /\ \A m \in 1..(k - 1) : TrimStart(schema[m].displayName) # name
    ELSE 0

\* schema.find(c => c.displayName.trim() === name): its 1-based position, 0 when absent.
FindColumn(schema, name) ==
    IF \E k \in 1..Len(schema) : Trim(schema[k].displayName) = name
    THEN CHOOSE k \in 1..Len(schema) :
            /\ Trim(schema[k].displayName) = name
            /\ \A m \in 1..(k - 1) : Trim(schema[m].displayName) # name
    ELSE 0

\* getSortPriority with the results of "Nlp" and of any other value exchanged.
getSortPriorityNlpAsOther(value, ci) ==
    LET trimmed == Trim(value)
        compare == IF ci THEN ToLowerCase(trimmed) ELSE trimmed
        yes == IF ci THEN ToLowerCase(YesLiteral) ELSE YesLiteral
        nlp == IF ci THEN ToLowerCase(NlpLiteral) ELSE NlpLiteral
        no == IF ci THEN ToLowerCase(NoLiteral) ELSE NoLiteral
    IN  IF compare = yes THEN 1
        ELSE IF compare = nlp THEN 2
        ELSE IF compare = EmptyText THEN 4
        ELSE IF compare = no THEN 5
        ELSE 3

getSortPriority(value, ci) ==
    LET trimmed == Trim(value)
        compare == IF ci THEN ToLowerCase(trimmed) ELSE trimmed
        yes == IF ci THEN ToLowerCase(YesLiteral) ELSE YesLiteral
        nlp == IF ci THEN ToLowerCase(NlpLiteral) ELSE NlpLiteral
        no == IF ci THEN ToLowerCase(NoLiteral) ELSE NoLiteral
    IN  IF compare = yes THEN 1
        ELSE IF compare = nlp THEN 3
        ELSE IF compare = EmptyText THEN 4
        ELSE IF compare = no THEN 5
        ELSE 2

\* The comparator with its operands exchanged (descending order).
CompareDescending(a, b, doneKey, ci) ==
    getSortPriority(Cell(b, doneKey), ci) - getSortPriority(Cell(a, doneKey), ci)

\* The comparator given to processedData.sort.
Compare(a, b, doneKey, ci) ==
    getSortPriority(Cell(a, doneKey), ci) - getSortPriority(Cell(b, doneKey), ci)

\* Array.prototype.sort is stable (ECMAScript 2019): insertion from the left,
\* a row moving in front only of rows that compare greater.
\* The insertion moving a row in front of rows that compare equal as well
\* (an unstable sort).
RECURSIVE InsertSortedUnstable(_, _, _, _)
InsertSortedUnstable(sorted, row, doneKey, ci) ==
    IF sorted = <<>> THEN <<row>>
    ELSE IF Compare(sorted[Len(sorted)], row, doneKey, ci) >= 0
         THEN Append(InsertSortedUnstable(SubSeq(sorted, 1, Len(sorted) - 1), row, doneKey, ci),
                     sorted[Len(sorted)])
         ELSE Append(sorted, row)

RECURSIVE InsertSorted(_, _, _, _)
InsertSorted(sorted, row, doneKey, ci) ==
    IF sorted = <<>> THEN <<row>>
    ELSE IF Compare(sorted[Len(sorted)], row, doneKey, ci) > 0
         THEN Append(InsertSorted(SubSeq(sorted, 1, Len(sorted) - 1), row, doneKey, ci),
                     sorted[Len(sorted)])
         ELSE Append(sorted, row)

RECURSIVE SortFrom(_, _, _, _)
SortFrom(sorted, rest, doneKey, ci) ==
    IF rest = <<>> THEN sorted
    ELSE SortFrom(InsertSorted(sorted, Head(rest), doneKey, ci), Tail(rest), doneKey, ci)

Sort(rows, doneKey, ci) == SortFrom(<<>>, rows, doneKey, ci)

\* Step 4 with the identifier compared as written, not trimmed.
RECURSIVE DedupeFromUntrimmed(_, _, _, _)
DedupeFromUntrimmed(rest, seenSoFar, deduped, assetKey) ==
    IF rest = <<>> THEN [deduped |-> deduped, seen |-> seenSoFar]
    ELSE LET row == Head(rest)
             rawVal == Cell(row, assetKey)
         IN  IF Trim(rawVal) = EmptyText
             THEN DedupeFromUntrimmed(Tail(rest), seenSoFar, Append(deduped, row), assetKey)
             ELSE IF rawVal \notin seenSoFar
                  THEN DedupeFromUntrimmed(Tail(rest), seenSoFar \cup {rawVal},
                                           Append(deduped, row), assetKey)
                  ELSE DedupeFromUntrimmed(Tail(rest), seenSoFar, deduped, assetKey)

\* Step 4 without the branch that exempts blank identifiers.
RECURSIVE DedupeFromNoBlankBranch(_, _, _, _)
DedupeFromNoBlankBranch(rest, seenSoFar, deduped, assetKey) ==
    IF rest = <<>> THEN [deduped |-> deduped, seen |-> seenSoFar]
    ELSE LET row == Head(rest)
             trimmedVal == Trim(Cell(row, assetKey))
         IN  IF trimmedVal \notin seenSoFar
             THEN DedupeFromNoBlankBranch(Tail(rest), seenSoFar \cup {trimmedVal},
                                          Append(deduped, row), assetKey)
             ELSE DedupeFromNoBlankBranch(Tail(rest), seenSoFar, deduped, assetKey)

\* Step 4 keeping the last row of an identifier in the place of the first.
RECURSIVE DedupeFromLastWins(_, _, _, _)
DedupeFromLastWins(rest, seenSoFar, deduped, assetKey) ==
    IF rest = <<>> THEN [deduped |-> deduped, seen |-> seenSoFar]
    ELSE LET row == Head(rest)
             trimmedVal == Trim(Cell(row, assetKey))
         IN  IF trimmedVal = EmptyText
             THEN DedupeFromLastWins(Tail(rest), seenSoFar, Append(deduped, row), assetKey)
             ELSE IF trimmedVal \notin seenSoFar
                  THEN DedupeFromLastWins(Tail(rest), seenSoFar \cup {trimmedVal},
                                          Append(deduped, row), assetKey)
                  ELSE DedupeFromLastWins(Tail(rest), seenSoFar,
                           [k \in 1..Len(deduped) |->
                               IF Trim(Cell(deduped[k], assetKey)) = trimmedVal
                               THEN row ELSE deduped[k]],
                           assetKey)

\* Step 4 removing duplicates in place while iterating: the row that
\* follows a removed row is not examined.
RECURSIVE DedupeFromSkipNext(_, _, _, _)
DedupeFromSkipNext(rest, seenSoFar, deduped, assetKey) ==
    IF rest = <<>> THEN [deduped |-> deduped, seen |-> seenSoFar]
    ELSE LET row == Head(rest)
             trimmedVal == Trim(Cell(row, assetKey))
         IN  IF trimmedVal = EmptyText
             THEN DedupeFromSkipNext(Tail(rest), seenSoFar, Append(deduped, row), assetKey)
             ELSE IF trimmedVal \notin seenSoFar
                  THEN DedupeFromSkipNext(Tail(rest), seenSoFar \cup {trimmedVal},
                                          Append(deduped, row), assetKey)
                  ELSE IF Tail(rest) = <<>>
                       THEN DedupeFromSkipNext(Tail(rest), seenSoFar, deduped, assetKey)
                       ELSE DedupeFromSkipNext(Tail(Tail(rest)), seenSoFar,
                                Append(deduped, Head(Tail(rest))), assetKey)

\* processedData.forEach(row => ...) of step 4: the rest of the rows, the
\* set `seen` and the array `deduped` so far; yields both at the end.
\* Deduplication that compares identifiers without regard to letter case.
RECURSIVE DedupeFromIgnoreCase(_, _, _, _)
DedupeFromIgnoreCase(rest, seenSoFar, deduped, assetKey) ==
    IF rest = <<>> THEN [deduped |-> deduped, seen |-> seenSoFar]
    ELSE LET row == Head(rest)
             trimmedVal == ToLowerCase(Trim(Cell(row, assetKey)))
         IN  IF trimmedVal = EmptyText
             THEN DedupeFromIgnoreCase(Tail(rest), seenSoFar, Append(deduped, row),
                                       assetKey)
             ELSE IF trimmedVal \notin seenSoFar
                  THEN DedupeFromIgnoreCase(Tail(rest), seenSoFar \cup {trimmedVal},
                                            Append(deduped, row), assetKey)
                  ELSE DedupeFromIgnoreCase(Tail(rest), seenSoFar, deduped, assetKey)

RECURSIVE DedupeFrom(_, _, _, _)
DedupeFrom(rest, seenSoFar, deduped, assetKey) ==
    IF rest = <<>> THEN [deduped |-> deduped, seen |-> seenSoFar]
    ELSE LET row == Head(rest)
             trimmedVal == Trim(Cell(row, assetKey))
         IN  IF trimmedVal = EmptyText
             THEN DedupeFrom(Tail(rest), seenSoFar, Append(deduped, row), assetKey)
             ELSE IF trimmedVal \notin seenSoFar
                  THEN DedupeFrom(Tail(rest), seenSoFar \cup {trimmedVal},
                                  Append(deduped, row), assetKey)
                  ELSE DedupeFrom(Tail(rest), seenSoFar, deduped, assetKey)

Dedupe(rows, assetKey) == DedupeFrom(rows, {}, <<>>, assetKey).deduped

SeenAfter(rows, assetKey) == DedupeFrom(rows, {}, <<>>, assetKey).seen

\* The value both filters of step 5 compare with `no`.
IsNo(row, doneKey, ci) ==
    LET v == Trim(Cell(row, doneKey))
        no == IF ci THEN ToLowerCase(NoLiteral) ELSE NoLiteral
        compare == IF ci THEN ToLowerCase(v) ELSE v
    IN  compare = no

\* The done filter comparing the value as written with the lower-cased literal.
FilterDoneNotLowered(rows, doneKey, ci) ==
    LET no == IF ci THEN ToLowerCase(NoLiteral) ELSE NoLiteral
        Keep(row) == Trim(Cell(row, doneKey)) # no
    IN  SelectSeq(rows, Keep)

FilterDone(rows, doneKey, ci) ==
    LET Keep(row) == ~IsNo(row, doneKey, ci) IN SelectSeq(rows, Keep)

FilterTodo(rows, doneKey, ci) ==
    LET Keep(row) == IsNo(row, doneKey, ci) IN SelectSeq(rows, Keep)

-----------------------------------------------------------------------------
(* Papa.parse with skipEmptyLines: 'greedy', and exportToCsv *)

\* row.join('')
RECURSIVE JoinCells(_)
JoinCells(row) == IF row = <<>> THEN EmptyText ELSE Head(row) \o JoinCells(Tail(row))

\* skipEmptyLines: true, which drops only a line made of one empty cell.
SkipEmptyLinesPlain(lines) ==
    LET Keep(row) == ~(Len(row) = 1 /\ row[1] = EmptyText) IN SelectSeq(lines, Keep)

\* skipEmptyLines: 'greedy': parseResult.data is the lines of the text
\* without those whose cells hold nothing but white space.
SkipEmptyLinesGreedy(lines) ==
    LET Keep(row) == Trim(JoinCells(row)) # EmptyText IN SelectSeq(lines, Keep)

\* exportToCsv with the internal keys as the header row.
exportToCsvInternalKeys(rows, schema) ==
    [fields |-> [k \in 1..Len(schema) |-> schema[k].internalKey],
     data |-> [r \in 1..Len(rows) |->
                 [k \in 1..Len(schema) |-> Cell(rows[r], schema[k].internalKey)]]]

\* exportToCsv: headers and rows, as handed to Papa.unparse.
exportToCsv(rows, schema) ==
    [fields |-> [k \in 1..Len(schema) |-> schema[k].displayName],
     data |-> [r \in 1..Len(rows) |->
                 [k \in 1..Len(schema) |-> Cell(rows[r], schema[k].internalKey)]]]

-----------------------------------------------------------------------------
(* Inputs: what Papa.parse returns for a file (parseResult.data) *)

Moteur == <<"M", "o", "t", "e", "u", "r">>
HeaderA == <<AssetNumberLiteral, DoneLiteral, Moteur, Moteur>>
HeaderB == <<AssetNumberLiteral, DoneLiteral, Moteur>>

A1 == <<"A", "1">>
RowA == <<A1, NoLiteral, <<"1", "1", "1">>, <<"A", "A", "A">>>>
RowB == <<A1, YesLiteral, <<"2", "2", "2">>>>
RowPadded == <<<<" ", "A", "1", " ">>, <<"y", "e", "s">>>>
RowBlankId == <<<<" ">>, <<"n", "o", " ">>>>

HeaderRows == {HeaderA, HeaderB}
DataRows == {RowA, RowB, RowPadded, RowBlankId}

\* Header rows that exercise the key construction: a repeated name, a name
\* that contains "__occ", empty cells, names with surrounding blanks, the
\* inherited name __proto__, and headers without the required columns.
MoteurOcc1 == Moteur \o OccLiteral \o <<"1">>
HeaderOcc == <<Moteur, MoteurOcc1, Moteur>>
HeaderEmptyCells == <<EmptyText, EmptyText, AssetNumberLiteral>>
HeaderProto == <<ProtoName, ProtoName>>
HeaderSpaced == <<<<" ">> \o AssetNumberLiteral, DoneLiteral \o <<" ">>>>
HeaderPlain == <<AssetNumberLiteral, DoneLiteral>>
HeaderDoneOnly == <<DoneLiteral, Moteur>>
HeaderAssetOnly == <<Moteur, AssetNumberLiteral>>

SchemaHeaderRows == {HeaderOcc, HeaderEmptyCells, HeaderProto, HeaderSpaced,
                     HeaderPlain, HeaderDoneOnly, HeaderAssetOnly}
LowerA1 == <<"a", "1">>
CaseDataRows == {<<A1, NoLiteral>>, <<LowerA1, <<"n", "o">>>>,
                 <<<<" ", "a", "1">>, <<"Y", "E", "S">>>>}

SchemaDataRows == {<<A1, NoLiteral>>, <<A1, YesLiteral, A1>>}

\* The lines of the files of a call that is exported: header rows, data
\* rows, and a line whose cells are empty or blank.
BlankLine == <<EmptyText, <<" ">>>>
ExportLines == {HeaderA, HeaderB, RowA, RowB, BlankLine}

RECURSIVE LineCount(_)
LineCount(ts) == IF ts = <<>> THEN 0 ELSE Len(Head(ts)) + LineCount(Tail(ts))

\* The characters of the status values given to getSortPriority alone.
PriorityChars == {" ", "Y", "y", "e", "s", "N", "n", "o", "O", "l", "p"}

SeqsUpTo(S, n) == UNION {[1..k -> S] : k \in 0..n}

RECURSIVE DataRowCount(_)
DataRowCount(fs) ==
    IF fs = <<>> THEN 0
    ELSE (IF Head(fs) = <<>> THEN 0 ELSE Len(Head(fs)) - 1) + DataRowCount(Tail(fs))

-----------------------------------------------------------------------------
(* processCsvFiles as a state machine: one step per loop iteration (each    *)
(* awaits file.text()), then steps 2 to 5 in one synchronous step.          *)

NoResult ==
    /\ texts = <<>>
    /\ files = <<>>
    /\ i = 0
    /\ allRows = <<>>
    /\ globalSchema = <<>>
    /\ allRowsCount = 0
    /\ errors = <<>>
    /\ doneCol = 0
    /\ assetNumberCol = 0
    /\ sortedData = <<>>
    /\ seen = {}
    /\ combinedDeduped = <<>>
    /\ done = <<>>
    /\ todo = <<>>
    /\ hasDoneColumn = FALSE
    /\ hasAssetNumberColumn = FALSE

\* Nothing downloaded, paginated or classified yet.
NoExport ==
    /\ tab = "none"
    /\ csvContent = [fields |-> <<>>, data |-> <<>>]

NoPages ==
    /\ equipment = <<>>
    /\ result = <<>>

NoExcel ==
    /\ data = <<>>
    /\ processed = <<>>
    /\ byStatus = <<>>

NoBuckets ==
    [procedures |-> <<>>, notCollected |-> <<>>, noLubePoint |-> <<>>,
     sampled |-> <<>>, questions |-> <<>>]

NoNumbering ==
    /\ heap = <<>>
    /\ excelProcessed = [processed |-> <<>>, byStatus |-> NoBuckets]
    /\ withPageNumbers = [processed |-> <<>>, byStatus |-> NoBuckets]

\* The value null of the states `result` and `excelResult`.
Null == [null |-> TRUE]

\* The App as it is mounted: no file selected, nothing computed.
NoApp ==
    /\ selectedFiles = <<>>
    /\ running = {}
    /\ appResult = Null
    /\ excelResult = Null
    /\ renders = 0

Init ==
    /\ nFiles \in 0..MaxFiles
    /\ caseInsensitive \in BOOLEAN
    /\ preserveOrder \in BOOLEAN
    /\ pc = "parse"
    /\ NoResult
    /\ val = EmptyText
    /\ priority = 0
    /\ NoNumbering /\ NoApp /\ NoExport /\ NoPages /\ NoExcel

\* if (rows.length === 0) continue;
SkipFile ==
    /\ pc = "parse"
    /\ i < nFiles
    /\ texts' = Append(texts, <<>>)
    /\ files' = Append(files, <<>>)
    /\ i' = i + 1
    /\ UNCHANGED <<nFiles, caseInsensitive, preserveOrder, pc, allRows, globalSchema,
                   allRowsCount, errors, doneCol, assetNumberCol, sortedData, seen,
                   combinedDeduped, done, todo, hasDoneColumn, hasAssetNumberColumn,
                   val, priority, exportVars, numberingVars,
                   appVars, pageVars, excelVars>>

\* One iteration of the loop for a file with at least a header row.
ParseRows(rows) ==
    LET headerRow == Head(rows)
        dataRows == Tail(rows)
        localSchema == LocalSchema(headerRow)
        schema == MergeSchema(i, globalSchema, localSchema)
        rowObjs == RowObjs(schema, localSchema, dataRows)
    IN  /\ files' = Append(files, rows)
        /\ globalSchema' = schema
        /\ allRows' = allRows \o rowObjs
        /\ allRowsCount' = allRowsCount + Len(rowObjs)
        /\ i' = i + 1
        /\ UNCHANGED <<nFiles, caseInsensitive, preserveOrder, pc, errors, doneCol,
                       assetNumberCol, sortedData, seen, combinedDeduped, done, todo,
                       hasDoneColumn, hasAssetNumberColumn, val, priority,
                       exportVars, numberingVars, appVars, pageVars, excelVars>>

ParseFile ==
    /\ pc = "parse"
    /\ i < nFiles
    /\ \E headerRow \in HeaderRows :
       \E dataRows \in SeqsUpTo(DataRows, MaxRows - DataRowCount(files)) :
          /\ texts' = Append(texts, <<headerRow>> \o dataRows)
          /\ ParseRows(<<headerRow>> \o dataRows)

ParseSchemaFile ==
    /\ pc = "parse"
    /\ i < nFiles
    /\ \E headerRow \in SchemaHeaderRows :
       \E dataRows \in SeqsUpTo(SchemaDataRows, MaxSchemaRows - DataRowCount(files)) :
          /\ texts' = Append(texts, <<headerRow>> \o dataRows)
          /\ ParseRows(<<headerRow>> \o dataRows)

\* Files whose identifiers and status values differ in letter case.
ParseCaseFile ==
    /\ pc = "parse"
    /\ i < nFiles
    /\ \E dataRows \in SeqsUpTo(CaseDataRows, MaxCaseRows - DataRowCount(files)) :
          /\ texts' = Append(texts, <<HeaderPlain>> \o dataRows)
          /\ ParseRows(<<HeaderPlain>> \o dataRows)

\* Steps 2 to 5 with the sort done whatever preserveOrder is.
FinishSortAlways ==
    /\ pc = "parse"
    /\ i = nFiles
    /\ doneCol' = FindColumn(globalSchema, DoneLiteral)
    /\ assetNumberCol' = FindColumn(globalSchema, AssetNumberLiteral)
    /\ hasDoneColumn' = (doneCol' # 0)
    /\ hasAssetNumberColumn' = (assetNumberCol' # 0)
    /\ errors' = (IF hasDoneColumn' THEN <<>> ELSE <<MissingDone>>)
                     \o (IF hasAssetNumberColumn' THEN <<>> ELSE <<MissingAssetNumber>>)
    /\ sortedData' =
           IF hasDoneColumn'
           THEN Sort(allRows, globalSchema[doneCol'].internalKey, caseInsensitive)
           ELSE allRows
    /\ combinedDeduped' =
           IF hasAssetNumberColumn'
           THEN Dedupe(sortedData', globalSchema[assetNumberCol'].internalKey)
           ELSE sortedData'
    /\ seen' = IF hasAssetNumberColumn'
               THEN SeenAfter(sortedData', globalSchema[assetNumberCol'].internalKey)
               ELSE {}
    /\ done' = IF hasDoneColumn'
               THEN FilterDone(combinedDeduped', globalSchema[doneCol'].internalKey,
                               caseInsensitive)
               ELSE <<>>
    /\ todo' = IF hasDoneColumn'
               THEN FilterTodo(combinedDeduped', globalSchema[doneCol'].internalKey,
                               caseInsensitive)
               ELSE <<>>
    /\ pc' = "done"
    /\ UNCHANGED <<nFiles, texts, files, caseInsensitive, preserveOrder, i, allRows,
                   globalSchema, allRowsCount, val, priority, exportVars, numberingVars,
                   appVars, pageVars, excelVars>>

\* Steps 2 to 5, after the last file.
Finish ==
    /\ pc = "parse"
    /\ i = nFiles
    /\ doneCol' = FindColumn(globalSchema, DoneLiteral)
    /\ assetNumberCol' = FindColumn(globalSchema, AssetNumberLiteral)
    /\ hasDoneColumn' = (doneCol' # 0)
    /\ hasAssetNumberColumn' = (assetNumberCol' # 0)
    /\ errors' = (IF hasDoneColumn' THEN <<>> ELSE <<MissingDone>>)
                     \o (IF hasAssetNumberColumn' THEN <<>> ELSE <<MissingAssetNumber>>)
    /\ sortedData' =
           IF hasDoneColumn' /\ ~preserveOrder
           THEN Sort(allRows, globalSchema[doneCol'].internalKey, caseInsensitive)
           ELSE allRows
    /\ combinedDeduped' =
           IF hasAssetNumberColumn'
           THEN Dedupe(sortedData', globalSchema[assetNumberCol'].internalKey)
           ELSE sortedData'
    /\ seen' = IF hasAssetNumberColumn'
               THEN SeenAfter(sortedData', globalSchema[assetNumberCol'].internalKey)
               ELSE {}
    /\ done' = IF hasDoneColumn'
               THEN FilterDone(combinedDeduped', globalSchema[doneCol'].internalKey,
                               caseInsensitive)
               ELSE <<>>
    /\ todo' = IF hasDoneColumn'
               THEN FilterTodo(combinedDeduped', globalSchema[doneCol'].internalKey,
                               caseInsensitive)
               ELSE <<>>
    /\ pc' = "done"
    /\ UNCHANGED <<nFiles, texts, files, caseInsensitive, preserveOrder, i, allRows,
                   globalSchema, allRowsCount, val, priority, exportVars, numberingVars,
                   appVars, pageVars, excelVars>>

Next == SkipFile \/ ParseFile \/ Finish

Spec == Init /\ [][Next]_vars

\* The same program on the header rows that exercise the key construction.
NextSchema == SkipFile \/ ParseSchemaFile \/ Finish

SpecSchema == Init /\ [][NextSchema]_vars

\* The same on the files whose values differ in letter case.
NextCase == SkipFile \/ ParseCaseFile \/ Finish

SpecCase == Init /\ [][NextCase]_vars

-----------------------------------------------------------------------------
(* The call of handleProcess followed by one download (handleCsvDownload),  *)
(* on files whose text may hold blank lines.                                *)

\* App.tsx calls processCsvFiles(files, caseInsensitive): preserveOrder
\* takes its default value, true.
HandleProcessCall == preserveOrder = TRUE

InitExport == Init /\ HandleProcessCall

\* One iteration of the loop for a file with at least one line.
ParseExportFile ==
    /\ pc = "parse"
    /\ i < nFiles
    /\ \E lines \in SeqsUpTo(ExportLines, MaxExportLines - LineCount(texts)) \ {<<>>} :
          LET rows == SkipEmptyLinesGreedy(lines)
          IN  /\ texts' = Append(texts, lines)
              /\ IF rows = <<>>
                 THEN /\ files' = Append(files, <<>>)
                      /\ i' = i + 1
                      /\ UNCHANGED <<nFiles, caseInsensitive, preserveOrder, pc, allRows,
                                     globalSchema, allRowsCount, errors, doneCol,
                                     assetNumberCol, sortedData, seen, combinedDeduped,
                                     done, todo, hasDoneColumn, hasAssetNumberColumn,
                                     val, priority, exportVars, numberingVars,
                                     appVars, pageVars, excelVars>>
                 ELSE ParseRows(rows)

\* handleCsvDownload(type), once the result is there.
handleCsvDownload ==
    /\ pc = "done"
    /\ tab = "none"
    /\ \E type \in {"combined", "done", "todo"} :
          /\ tab' = type
          /\ csvContent' = exportToCsv(CASE type = "combined" -> combinedDeduped
                                          [] type = "done" -> done
                                          [] type = "todo" -> todo,
                                       globalSchema)
    /\ UNCHANGED <<pipelineVars, val, priority, pageVars, excelVars, numberingVars,
                   appVars>>

NextExport == SkipFile \/ ParseExportFile \/ Finish \/ handleCsvDownload

SpecExport == InitExport /\ [][NextExport]_vars

-----------------------------------------------------------------------------
(* getSortPriority alone, on every status value up to MaxValLen characters *)

InitPriority ==
    /\ nFiles = 0
    /\ caseInsensitive \in BOOLEAN
    /\ preserveOrder = FALSE
    /\ pc = "priority"
    /\ NoResult
    /\ val \in SeqsUpTo(PriorityChars, MaxValLen)
    /\ priority = 0
    /\ NoNumbering /\ NoApp /\ NoExport /\ NoPages /\ NoExcel

CallGetSortPriority ==
    /\ pc = "priority"
    /\ priority = 0
    /\ priority' = getSortPriority(val, caseInsensitive)
    /\ UNCHANGED <<pipelineVars, val, exportVars, numberingVars, appVars, pageVars,
                   excelVars>>

NextPriority == CallGetSortPriority

SpecPriority == InitPriority /\ [][NextPriority]_vars

-----------------------------------------------------------------------------
(* assignPageNumbers (src/utils/excel-processor.ts) *)

UnknownLiteral == <<"U", "n", "k", "n", "o", "w", "n">>

\* x || 'Unknown'
OrUnknown(text) == IF text = EmptyText THEN UnknownLiteral ELSE text

\* const key = `${eq.area || 'Unknown'}_${eq.assetNumber || 'Unknown'}`
GroupKey(eq) == OrUnknown(eq.area) \o <<"_">> \o OrUnknown(eq.assetNumber)

\* The keys of the Map `grouped`, in insertion order.
RECURSIVE GroupKeysFrom(_, _)
GroupKeysFrom(rest, keys) ==
    IF rest = <<>> THEN keys
    ELSE IF \E k \in 1..Len(keys) : keys[k] = GroupKey(Head(rest))
         THEN GroupKeysFrom(Tail(rest), keys)
         ELSE GroupKeysFrom(Tail(rest), Append(keys, GroupKey(Head(rest))))

\* grouped.get(key): the records of that key, in input order.
Items(eqs, key) ==
    LET Keep(eq) == GroupKey(eq) = key IN SelectSeq(eqs, Keep)

\* { ...item, pageNumber: pageNum }: a new object
Spread(item, pageNum) ==
    [f \in DOMAIN item \cup {"pageNumber"} |->
        IF f = "pageNumber" THEN pageNum ELSE item[f]]

WithPageNumber(items, pageNum) ==
    [k \in 1..Len(items) |-> Spread(items[k], pageNum)]

\* grouped.forEach((items) => { ...; pageNum++ })
RECURSIVE ResultFrom(_, _, _)
ResultFrom(eqs, keys, pageNum) ==
    IF keys = <<>> THEN <<>>
    ELSE WithPageNumber(Items(eqs, Head(keys)), pageNum)
             \o ResultFrom(eqs, Tail(keys), pageNum + 1)

assignPageNumbers(eqs) == ResultFrom(eqs, GroupKeysFrom(eqs, <<>>), 1)

\* The records given to assignPageNumbers: area and assetNumber are values
\* returned by getCol (trimmed), uniqueRowId tells records of one group apart.
AreaValues == {EmptyText, UnknownLiteral, <<"A">>, <<"A", "_", "B">>}
AssetNumberValues == {EmptyText, <<"C">>, <<"B", "_", "C">>}
UniqueRowIdValues == {<<"1">>, <<"2">>}
EquipmentPool ==
    {[area |-> a, assetNumber |-> n, uniqueRowId |-> u] :
        a \in AreaValues, n \in AssetNumberValues, u \in UniqueRowIdValues}

InitPages ==
    /\ nFiles = 0
    /\ caseInsensitive = FALSE
    /\ preserveOrder = TRUE
    /\ pc = "pages"
    /\ NoResult
    /\ val = EmptyText
    /\ priority = 0
    /\ NoNumbering /\ NoApp /\ NoExport /\ NoExcel
    /\ equipment \in SeqsUpTo(EquipmentPool, MaxEquipment)
    /\ result = <<>>

CallAssignPageNumbers ==
    /\ pc = "pages"
    /\ result' = assignPageNumbers(equipment)
    /\ pc' = "paged"
    /\ UNCHANGED <<nFiles, texts, files, caseInsensitive, preserveOrder, i, allRows,
                   globalSchema, allRowsCount, errors, doneCol, assetNumberCol,
                   sortedData, seen, combinedDeduped, done, todo, hasDoneColumn,
                   hasAssetNumberColumn, val, priority, exportVars, numberingVars,
                   appVars, equipment, excelVars>>

NextPages == CallAssignPageNumbers

SpecPages == InitPages /\ [][NextPages]_vars

-----------------------------------------------------------------------------
(* processWithExcelLogic (src/utils/excel-processor.ts): criticality,       *)
(* status and the categories of byStatus                                    *)

STATUS_NOT_ACCESSIBLE == <<"N", "o", "t", " ", "A", "c", "c", "e", "s", "s", "i", "b", "l", "e">>
STATUS_NOT_FOUND == <<"N", "o", "t", " ", "F", "o", "u", "n", "d">>
STATUS_NLP == <<"N", "L", "P">>
STATUS_QUESTION == <<"Q", "u", "e", "s", "t", "i", "o", "n">>
STATUS_OUT_OF_SCOPE == <<"O", "u", "t", " ", "o", "f", " ", "s", "c", "o", "p", "e">>

CRITICALITY_CRITICAL == <<"C">>
CRITICALITY_COMPLICATED == <<"C", "o", "m", "p", "l", "i", "c", "a", "t", "e", "d">>
CRITICALITY_CRITICAL_COMPLICATED ==
    <<"C", "r", "i", "t", "i", "c", "a", "l", " ", "&", " ", "C", "o", "m", "p", "l", "i", "c", "a", "t", "e", "d">>

CriticalLiteral == <<"C", "R", "I", "T", "I", "C", "A", "L">>
ComplicatedLiteral == <<"C", "o", "m", "p", "l", "i", "c", "a", "t", "e", "d">>
CritNumLiteral == <<"C", "R", "I", "T", " ", "#">>
CommentLiteral ==
    <<"C", "o", "m", "m", "e", "n", "t", "/", "Q", "u", "e", "s", "t", "i", "o", "n">>

\* String.prototype.includes
Includes(text, part) ==
    \E k \in 0..(Len(text) - Len(part)) : SubSeq(text, k + 1, k + Len(part)) = part

\* const getCol = (row, colName) => ...
getCol(schema, row, colName) ==
    LET col == FindColumn(schema, colName)
    IN  IF col # 0 THEN Trim(Cell(row, schema[col].internalKey)) ELSE EmptyText

\* "Determine criticality"
Criticality(isCritical, isComplicated) ==
    IF isCritical /\ isComplicated THEN CRITICALITY_CRITICAL_COMPLICATED
    ELSE IF isCritical THEN CRITICALITY_CRITICAL
    ELSE IF isComplicated THEN CRITICALITY_COMPLICATED
    ELSE EmptyText

\* "Determine status" with the test for "question" ahead of the others.
StatusQuestionFirst(doneValue) ==
    LET lower == ToLowerCase(doneValue)
    IN  IF Includes(lower, <<"q", "u", "e", "s", "t", "i", "o", "n">>)
        THEN STATUS_QUESTION
        ELSE IF \/ Includes(lower, <<"n", "o", "t", " ", "a", "c", "c", "e", "s", "s", "i", "b", "l", "e">>)
                \/ Includes(lower, <<"n", "o", "n", " ", "a", "c", "c", "e", "s", "s", "i", "b", "l", "e">>)
        THEN STATUS_NOT_ACCESSIBLE
        ELSE IF \/ Includes(lower, <<"n", "o", "t", " ", "f", "o", "u", "n", "d">>)
                \/ Includes(lower, <<"p", "a", "s", " ", "t", "r", "o", "u", "v", "é">>)
        THEN STATUS_NOT_FOUND
        ELSE IF lower = <<"n", "l", "p">>
        THEN STATUS_NLP
        ELSE IF \/ Includes(lower, <<"o", "u", "t", " ", "o", "f", " ", "s", "c", "o", "p", "e">>)
                \/ Includes(lower, <<"h", "o", "r", "s", " ", "s", "c", "o", "p", "e">>)
                \/ Includes(lower, <<"o", "b", "s", "o", "l", "e", "t", "e">>)
        THEN STATUS_OUT_OF_SCOPE
        ELSE doneValue

\* "Determine status"
Status(doneValue) ==
    LET lower == ToLowerCase(doneValue)
    IN  IF \/ Includes(lower, <<"n", "o", "t", " ", "a", "c", "c", "e", "s", "s", "i", "b", "l", "e">>)
           \/ Includes(lower, <<"n", "o", "n", " ", "a", "c", "c", "e", "s", "s", "i", "b", "l", "e">>)
        THEN STATUS_NOT_ACCESSIBLE
        ELSE IF \/ Includes(lower, <<"n", "o", "t", " ", "f", "o", "u", "n", "d">>)
                \/ Includes(lower, <<"p", "a", "s", " ", "t", "r", "o", "u", "v", "é">>)
        THEN STATUS_NOT_FOUND
        ELSE IF lower = <<"n", "l", "p">>
        THEN STATUS_NLP
        ELSE IF Includes(lower, <<"q", "u", "e", "s", "t", "i", "o", "n">>)
        THEN STATUS_QUESTION
        ELSE IF \/ Includes(lower, <<"o", "u", "t", " ", "o", "f", " ", "s", "c", "o", "p", "e">>)
                \/ Includes(lower, <<"h", "o", "r", "s", " ", "s", "c", "o", "p", "e">>)
                \/ Includes(lower, <<"o", "b", "s", "o", "l", "e", "t", "e">>)
        THEN STATUS_OUT_OF_SCOPE
        ELSE doneValue

\* "Scan for condition markers in all columns": the tests in source order;
\* `label` is the value of ENVIRONMENTAL_CONDITIONS under `code`.
ConditionMarkers ==
    <<[category |-> "particle",
       literal |-> <<"P", "a", "r", "t", "i", "c", "l", "e", " ", "M", "i", "l", "d">>,
       code |-> <<"P", "M", "I", "L", "D">>,
       label |-> <<"P", "a", "r", "t", "i", "c", "l", "e", " ", "M", "i", "l", "d">>],
      [category |-> "particle",
       literal |-> <<"P", "a", "r", "t", "i", "c", "l", "e", " ", "H", "e", "a", "v", "y">>,
       code |-> <<"P", "H", "V", "Y">>,
       label |-> <<"P", "a", "r", "t", "i", "c", "l", "e", " ", "H", "e", "a", "v", "y">>],
      [category |-> "moisture",
       literal |-> <<"M", "o", "i", "s", "t", "u", "r", "e", " ", "M", "o", "d", "e", "r", "a", "t", "e">>,
       code |-> <<"M", "M", "O", "D">>,
       label |-> <<"M", "o", "i", "s", "t", "u", "r", "e", " ", "M", "o", "d", "e", "r", "a", "t", "e">>],
      [category |-> "moisture",
       literal |-> <<"M", "o", "i", "s", "t", "u", "r", "e", " ", "H", "e", "a", "v", "y">>,
       code |-> <<"M", "H", "V", "Y">>,
       label |-> <<"M", "o", "i", "s", "t", "u", "r", "e", " ", "H", "e", "a", "v", "y">>],
      [category |-> "vibration",
       literal |-> <<"V", "i", "b", "r", "a", "t", "i", "o", "n", " ", "H", "e", "a", "v", "y">>,
       code |-> <<"V", "H", "V", "Y">>,
       label |-> <<"V", "i", "b", "r", "a", "t", "i", "o", "n", " ", "H", "e", "a", "v", "y">>],
      [category |-> "orientation",
       literal |-> <<"H", "o", "r", "i", "z", "o", "n", "t", "a", "l">>,
       code |-> <<"H", "O", "R", "I", "Z">>,
       label |-> <<"H", "o", "r", "i", "z", "o", "n", "t", "a", "l">>],
      [category |-> "orientation",
       literal |-> <<"V", "e", "r", "t", "i", "c", "a", "l">>,
       code |-> <<"V", "E", "R", "T">>,
       label |-> <<"V", "e", "r", "t", "i", "c", "a", "l">>],
      [category |-> "runtime",
       literal |-> <<">", "=", "1", "6", " ", "h", "r", "s", "/", "d", "a", "y">>,
       code |-> <<"E", "H", "R">>,
       label |-> <<">", "=", "1", "6", " ", "h", "r", "s", "/", "d", "a", "y">>],
      [category |-> "runtime",
       literal |-> <<"<", "=", "8", " ", "h", "r", "s", "/", "d", "a", "y">>,
       code |-> <<"S", "H", "R">>,
       label |-> <<"<", "=", "8", " ", "h", "r", "s", "/", "d", "a", "y">>],
      [category |-> "temperature",
       literal |-> <<"<", "8", "0", "°", "C">>,
       code |-> <<"L", "8", "0">>,
       label |-> <<"<", "8", "0", "°", "C">>],
      [category |-> "temperature",
       literal |-> <<">", "=", "8", "0", "°", "C">>,
       code |-> <<"H", "8", "0">>,
       label |-> <<">", "=", "8", "0", "°", "C">>]>>

\* conditions[category] = label
SetCondition(conditions, category, label) ==
    [c \in DOMAIN conditions \cup {category} |->
        IF c = category THEN label ELSE conditions[c]]

\* The if statements of one iteration, from the k-th on.
RECURSIVE MarkFrom(_, _, _)
MarkFrom(conditions, value, k) ==
    IF k > Len(ConditionMarkers) THEN conditions
    ELSE LET marker == ConditionMarkers[k]
         IN  IF value = marker.literal \/ value = marker.code
             THEN MarkFrom(SetCondition(conditions, marker.category, marker.label),
                           value, k + 1)
             ELSE MarkFrom(conditions, value, k + 1)

\* Object.entries(row): the own properties of the row in insertion order,
\* which is the order of the schema when the row was built; the positions
\* of the schema from the k-th on, each key once.
EntryAt(schema, row, k) ==
    /\ schema[k].internalKey \in DOMAIN row
    /\ \A m \in 1..(k - 1) : schema[m].internalKey # schema[k].internalKey

\* The scan in which a category keeps the first label it was given.
RECURSIVE ConditionsFirstWins(_, _, _, _)
ConditionsFirstWins(schema, row, k, conditions) ==
    IF k > Len(schema) THEN conditions
    ELSE IF EntryAt(schema, row, k)
         THEN LET marked == MarkFrom(<<>>, Trim(Cell(row, schema[k].internalKey)), 1)
              IN  ConditionsFirstWins(schema, row, k + 1,
                      [c \in DOMAIN conditions \cup DOMAIN marked |->
                          IF c \in DOMAIN conditions THEN conditions[c] ELSE marked[c]])
         ELSE ConditionsFirstWins(schema, row, k + 1, conditions)

RECURSIVE ConditionsFrom(_, _, _, _)
ConditionsFrom(schema, row, k, conditions) ==
    IF k > Len(schema) THEN conditions
    ELSE IF EntryAt(schema, row, k)
         THEN ConditionsFrom(schema, row, k + 1,
                  MarkFrom(conditions, Trim(Cell(row, schema[k].internalKey)), 1))
         ELSE ConditionsFrom(schema, row, k + 1, conditions)

\* The object returned for one row by data.map(...), without the features
\* and the fields copied by getCol alone; `row` stands for the
\* properties spread from the row.
ProcessedEquipment(schema, row) ==
    LET assetNumber == getCol(schema, row, AssetNumberLiteral)
        doneValue == getCol(schema, row, DoneLiteral)
        critical == getCol(schema, row, CriticalLiteral)
        complicated == getCol(schema, row, ComplicatedLiteral)
        critNum == getCol(schema, row, CritNumLiteral)
        isCritical == critical = CRITICALITY_CRITICAL \/ critNum = CRITICALITY_CRITICAL
        isComplicated == ToLowerCase(complicated) = ToLowerCase(CRITICALITY_COMPLICATED)
    IN  [row |-> row,
         assetNumber |-> assetNumber,
         criticality |-> Criticality(isCritical, isComplicated),
         isCritical |-> isCritical,
         isComplicated |-> isComplicated,
         conditions |-> ConditionsFrom(schema, row, 1, <<>>),
         status |-> Status(doneValue),
         isDone |-> ToLowerCase(doneValue) = ToLowerCase(YesLiteral),
         comment |-> getCol(schema, row, CommentLiteral)]

Processed(schema, rows) ==
    [k \in 1..Len(rows) |-> ProcessedEquipment(schema, rows[k])]

InProcedures(p) == p.isDone /\ p.assetNumber # EmptyText
InNotCollected(p) == p.status = STATUS_NOT_FOUND \/ p.assetNumber = EmptyText
InNoLubePoint(p) == p.status = STATUS_NLP
InSampled(p) ==
    \/ Includes(ToLowerCase(p.status), <<"s", "a", "m", "p", "l">>)
    \/ Includes(ToLowerCase(p.status), <<"é", "c", "h", "a", "n", "t", "i", "l", "l", "o", "n">>)
InQuestions(p) ==
    \/ Includes(p.status, STATUS_QUESTION)
    \/ p.comment # EmptyText

\* Categories in which a record is placed in the first one that takes it only.
ByStatusFirstOnly(ps) ==
    LET NotEarlier1(p) == InNotCollected(p) /\ ~InProcedures(p)
        NotEarlier2(p) == InNoLubePoint(p) /\ ~InProcedures(p) /\ ~InNotCollected(p)
        NotEarlier3(p) == /\ InSampled(p) /\ ~InProcedures(p) /\ ~InNotCollected(p)
                          /\ ~InNoLubePoint(p)
        NotEarlier4(p) == /\ InQuestions(p) /\ ~InProcedures(p) /\ ~InNotCollected(p)
                          /\ ~InNoLubePoint(p) /\ ~InSampled(p)
    IN  [procedures |-> SelectSeq(ps, InProcedures),
         notCollected |-> SelectSeq(ps, NotEarlier1),
         noLubePoint |-> SelectSeq(ps, NotEarlier2),
         sampled |-> SelectSeq(ps, NotEarlier3),
         questions |-> SelectSeq(ps, NotEarlier4)]

\* const byStatus = {...}
ByStatus(ps) ==
    [procedures |-> SelectSeq(ps, InProcedures),
     notCollected |-> SelectSeq(ps, InNotCollected),
     noLubePoint |-> SelectSeq(ps, InNoLubePoint),
     sampled |-> SelectSeq(ps, InSampled),
     questions |-> SelectSeq(ps, InQuestions)]

\* Inputs: a schema with the columns read here and one with the two
\* required columns only; rows that differ in the criticality cells, and
\* rows that differ in identifier, status and comment.
ExcelHeader ==
    <<AssetNumberLiteral, DoneLiteral, CriticalLiteral, ComplicatedLiteral,
      CritNumLiteral, CommentLiteral>>
ExcelSchemas == {LocalSchema(ExcelHeader), LocalSchema(HeaderPlain)}

CriticalityRows ==
    {<<A1, YesLiteral, c[1], c[2], c[3], EmptyText>> :
        c \in {<<<<"C">>, EmptyText, EmptyText>>,
               <<EmptyText, EmptyText, <<"C">>>>,
               <<EmptyText, <<"C", "o", "m", "p", "l", "i", "c", "a", "t", "e", "d">>, EmptyText>>,
               <<<<"C">>, <<"C", "O", "M", "P", "L", "I", "C", "A", "T", "E", "D", " ">>, EmptyText>>,
               <<<<" ", "C", " ">>, EmptyText, EmptyText>>,
               <<<<"c">>, EmptyText, EmptyText>>,
               <<EmptyText, <<"c", "o", "m", "p", "l", "i", "c", "a", "t", "e", "d">>, <<"1">>>>}}

StatusValues ==
    {<<"Y", "e", "s">>,
     <<" ", "y", "e", "s", " ">>,
     <<"N", "o">>,
     EmptyText,
     <<"H", "o", "r", "s", " ", "s", "c", "o", "p", "e">>,
     <<"N", "o", "t", " ", "a", "c", "c", "e", "s", "s", "i", "b", "l", "e">>,
     <<"N", "O", "N", " ", "A", "C", "C", "E", "S", "S", "I", "B", "L", "E">>,
     <<"n", "o", "t", " ", "f", "o", "u", "n", "d", " ", "q", "u", "e", "s", "t", "i", "o", "n">>,
     <<"P", "a", "s", " ", "t", "r", "o", "u", "v", "é">>,
     <<"n", "l", "p">>,
     <<"N", "L", "P", " ", "q", "u", "e", "s", "t", "i", "o", "n">>,
     <<"Q", "u", "e", "s", "t", "i", "o", "n", " ", "n", "o", "t", " ", "a", "c", "c", "e", "s", "s", "i", "b", "l", "e">>,
     <<"o", "b", "s", "o", "l", "e", "t", "e", " ", "q", "u", "e", "s", "t", "i", "o", "n">>,
     <<"O", "u", "t", " ", "o", "f", " ", "s", "c", "o", "p", "e">>,
     <<"S", "a", "m", "p", "l", "e", "d">>,
     <<"É", "c", "h", "a", "n", "t", "i", "l", "l", "o", "n">>}

StatusRows ==
    {<<A1, st, EmptyText, EmptyText, EmptyText, EmptyText>> : st \in StatusValues}

CommentRows ==
    {<<c[1], st, EmptyText, EmptyText, EmptyText, c[2]>> :
        st \in {<<"Y", "e", "s">>, <<"N", "o">>, <<"n", "o", "t", " ", "f", "o", "u", "n", "d", " ", "q", "u", "e", "s", "t", "i", "o", "n">>, <<"S", "a", "m", "p", "l", "e", "d">>},
        c \in {<<<<" ">>, EmptyText>>, <<<<"A", "1">>, <<" ">>>>, <<<<"A", "1">>, <<"c", "h", "e", "c", "k">>>>}}

ExcelRows == CriticalityRows \cup StatusRows \cup CommentRows

InitExcel ==
    /\ nFiles = 0
    /\ caseInsensitive = FALSE
    /\ preserveOrder = TRUE
    /\ pc = "excel"
    /\ texts = <<>> /\ files = <<>> /\ i = 0
    /\ allRows = <<>> /\ allRowsCount = 0 /\ errors = <<>>
    /\ doneCol = 0 /\ assetNumberCol = 0
    /\ sortedData = <<>> /\ seen = {} /\ combinedDeduped = <<>>
    /\ done = <<>> /\ todo = <<>>
    /\ hasDoneColumn = FALSE /\ hasAssetNumberColumn = FALSE
    /\ val = EmptyText
    /\ priority = 0
    /\ NoNumbering /\ NoApp /\ NoExport /\ NoPages
    /\ globalSchema \in ExcelSchemas
    /\ data \in SeqsUpTo({RowObj(globalSchema, globalSchema, r) : r \in ExcelRows},
                          MaxExcelRows)
    /\ processed = <<>>
    /\ byStatus = <<>>

CallProcessWithExcelLogic ==
    /\ pc = "excel"
    /\ processed' = Processed(globalSchema, data)
    /\ byStatus' = ByStatus(processed')
    /\ pc' = "classified"
    /\ UNCHANGED <<nFiles, texts, files, caseInsensitive, preserveOrder, i, allRows,
                   globalSchema, allRowsCount, errors, doneCol, assetNumberCol,
                   sortedData, seen, combinedDeduped, done, todo, hasDoneColumn,
                   hasAssetNumberColumn, val, priority, exportVars, numberingVars,
                   appVars, pageVars, data>>

NextExcel == CallProcessWithExcelLogic

SpecExcel == InitExcel /\ [][NextExcel]_vars

-----------------------------------------------------------------------------
(* processWithExcelLogic on rows that carry condition markers in the        *)
(* identifier, status and comment columns                                   *)

ConditionValues ==
    {<<"P", "M", "I", "L", "D">>,
     <<" ", "P", "a", "r", "t", "i", "c", "l", "e", " ", "H", "e", "a", "v", "y", " ">>,
     <<"V", "E", "R", "T">>,
     <<"p", "m", "i", "l", "d">>,
     <<"<", "8", "0", "°", "C">>}

ConditionRows ==
    {<<c[1], c[2], EmptyText, EmptyText, EmptyText, c[3]>> :
        c \in ConditionValues \X ConditionValues \X ConditionValues}

InitConditions ==
    /\ nFiles = 0
    /\ caseInsensitive = FALSE
    /\ preserveOrder = TRUE
    /\ pc = "excel"
    /\ texts = <<>> /\ files = <<>> /\ i = 0
    /\ allRows = <<>> /\ allRowsCount = 0 /\ errors = <<>>
    /\ doneCol = 0 /\ assetNumberCol = 0
    /\ sortedData = <<>> /\ seen = {} /\ combinedDeduped = <<>>
    /\ done = <<>> /\ todo = <<>>
    /\ hasDoneColumn = FALSE /\ hasAssetNumberColumn = FALSE
    /\ val = EmptyText
    /\ priority = 0
    /\ NoNumbering /\ NoApp /\ NoExport /\ NoPages
    /\ globalSchema = LocalSchema(ExcelHeader)
    /\ data \in SeqsUpTo({RowObj(globalSchema, globalSchema, r) : r \in ConditionRows},
                          MaxConditionRows)
    /\ processed = <<>>
    /\ byStatus = <<>>

NextConditions == CallProcessWithExcelLogic

SpecConditions == InitConditions /\ [][NextConditions]_vars

-----------------------------------------------------------------------------
(* App.handleProcess, lines 294 to 309: the objects returned by               *)
(* processWithExcelLogic are shared by `processed` and the five buckets;      *)
(* assignPageNumbers is called on each of the six arrays.  Objects live in    *)
(* `heap` and arrays hold references (indices into heap), so that an          *)
(* assignment to a shared object would show in every array that holds it.     *)

\* The objects an array of references holds, in order.
Deref(hp, refs) == [k \in 1..Len(refs) |-> hp[refs[k]]]

\* The references of one Map entry after another, in insertion order.
RECURSIVE GroupedRefs(_, _, _)
GroupedRefs(hp, refs, keys) ==
    IF keys = <<>> THEN <<>>
    ELSE LET Keep(r) == GroupKey(hp[r]) = Head(keys)
         IN  SelectSeq(refs, Keep) \o GroupedRefs(hp, refs, Tail(keys))

\* The page number of the group of key `key`.
PageOfKey(keys, key) == CHOOSE n \in 1..Len(keys) : keys[n] = key

\* assignPageNumbers that assigns item.pageNumber and pushes the item itself.
assignPageNumbersInPlace(hp, refs) ==
    LET keys == GroupKeysFrom(Deref(hp, refs), <<>>)
    IN  [heap |-> [o \in DOMAIN hp |->
                      IF \E k \in 1..Len(refs) : refs[k] = o
                      THEN Spread(hp[o], PageOfKey(keys, GroupKey(hp[o])))
                      ELSE hp[o]],
         refs |-> GroupedRefs(hp, refs, keys)]

\* assignPageNumbers on references: every pushed { ...item, pageNumber } is a
\* new object, allocated after the existing ones; the array returned holds
\* the new objects.
assignPageNumbersOnHeap(hp, refs) ==
    LET created == assignPageNumbers(Deref(hp, refs))
    IN  [heap |-> hp \o created,
         refs |-> [k \in 1..Len(created) |-> Len(hp) + k]]

\* const byStatus = {...} on references: filter keeps the objects themselves.
ByStatusRefs(hp, refs) ==
    LET Procedures(r) == InProcedures(hp[r])
        NotCollected(r) == InNotCollected(hp[r])
        NoLubePoint(r) == InNoLubePoint(hp[r])
        Sampled(r) == InSampled(hp[r])
        Questions(r) == InQuestions(hp[r])
    IN  [procedures |-> SelectSeq(refs, Procedures),
         notCollected |-> SelectSeq(refs, NotCollected),
         noLubePoint |-> SelectSeq(refs, NoLubePoint),
         sampled |-> SelectSeq(refs, Sampled),
         questions |-> SelectSeq(refs, Questions)]

\* The fields of a ProcessedEquipment that the buckets and the page numbers
\* read, computed from the cells as processWithExcelLogic computes them.
EquipmentObject(area, assetNumber, doneValue, comment) ==
    [area |-> area,
     assetNumber |-> assetNumber,
     status |-> Status(doneValue),
     isDone |-> ToLowerCase(doneValue) = ToLowerCase(YesLiteral),
     comment |-> comment]

ObjectPool ==
    {EquipmentObject(a, n, d, c) :
        a \in {EmptyText, <<"A">>}, n \in {EmptyText, <<"C">>},
        d \in {EmptyText, YesLiteral, STATUS_NLP}, c \in {EmptyText, <<"?">>}}

AllRefs(hp) == [k \in 1..Len(hp) |-> k]

\* The state when processWithExcelLogic has returned.
InitNumbering ==
    /\ nFiles = 0
    /\ caseInsensitive = FALSE
    /\ preserveOrder = TRUE
    /\ pc = "numbering"
    /\ NoResult
    /\ val = EmptyText
    /\ priority = 0
    /\ NoApp /\ NoExport /\ NoPages /\ NoExcel
    /\ heap \in SeqsUpTo(ObjectPool, MaxObjects)
    /\ excelProcessed = [processed |-> AllRefs(heap),
                         byStatus |-> ByStatusRefs(heap, AllRefs(heap))]
    /\ withPageNumbers = [processed |-> <<>>, byStatus |-> NoBuckets]

\* const withPageNumbers = {...}: six calls, in the order they are written.
AssignPageNumbersToAll ==
    /\ pc = "numbering"
    /\ LET all == assignPageNumbersOnHeap(heap, excelProcessed.processed)
           procedures ==
               assignPageNumbersOnHeap(all.heap, excelProcessed.byStatus.procedures)
           notCollected ==
               assignPageNumbersOnHeap(procedures.heap,
                                       excelProcessed.byStatus.notCollected)
           noLubePoint ==
               assignPageNumbersOnHeap(notCollected.heap,
                                       excelProcessed.byStatus.noLubePoint)
           sampled ==
               assignPageNumbersOnHeap(noLubePoint.heap, excelProcessed.byStatus.sampled)
           questions ==
               assignPageNumbersOnHeap(sampled.heap, excelProcessed.byStatus.questions)
       IN  /\ heap' = questions.heap
           /\ withPageNumbers' =
                  [processed |-> all.refs,
                   byStatus |-> [procedures |-> procedures.refs,
                                 notCollected |-> notCollected.refs,
                                 noLubePoint |-> noLubePoint.refs,
                                 sampled |-> sampled.refs,
                                 questions |-> questions.refs]]
    /\ pc' = "numbered"
    /\ UNCHANGED <<nFiles, texts, files, caseInsensitive, preserveOrder, i, allRows,
                   globalSchema, allRowsCount, errors, doneCol, assetNumberCol,
                   sortedData, seen, combinedDeduped, done, todo, hasDoneColumn,
                   hasAssetNumberColumn, val, priority, exportVars, pageVars,
                   excelVars, excelProcessed, appVars>>

NextNumbering == AssignPageNumbersToAll

SpecNumbering == InitNumbering /\ [][NextNumbering]_vars

-----------------------------------------------------------------------------
(* App (src/App.tsx): the file list, the effect that starts handleProcess    *)
(* when the list changes, and the handleProcess calls in flight.  Each call  *)
(* keeps the `files` of the render that started it and awaits file.text()    *)
(* once per file; the reads of different calls resolve in any order.  The    *)
(* files are CSV files (no session file); setCaseInsensitive is never        *)
(* called, so caseInsensitive keeps its initial value false.                 *)

FileNames == {"a.csv", "b.csv"}

\* What processCsvFiles(files, caseInsensitive) resolves to and what is
\* derived from it for excelResult: a value determined by the arguments,
\* which are kept to tell the results of different calls apart.
ResultOf(fs, ci) == [files |-> fs, caseInsensitive |-> ci]

\* useEffect(..., [files, caseInsensitive]) after a render with the list `fs`:
\* handleProcess is called and suspends at the first await, or the results
\* are set to null.
EffectOnFiles(fs) ==
    IF Len(fs) > 0
    THEN /\ running' = running \cup {[run |-> renders', files |-> fs, read |-> 0]}
         /\ UNCHANGED <<appResult, excelResult>>
    ELSE /\ appResult' = Null
         /\ excelResult' = Null
         /\ UNCHANGED running

AppFrame ==
    UNCHANGED <<pipelineVars, val, priority, exportVars, pageVars, excelVars,
                numberingVars>>

\* CsvUploader.onDrop: onFilesChange([...files, ...validFiles])
onDrop ==
    /\ pc = "app"
    /\ renders < MaxRenders
    /\ \E name \in FileNames :
          /\ selectedFiles' = Append(selectedFiles, name)
          /\ renders' = renders + 1
          /\ EffectOnFiles(selectedFiles')
    /\ AppFrame

\* CsvUploader.removeFile(index)
removeFile ==
    /\ pc = "app"
    /\ renders < MaxRenders
    /\ \E index \in 1..Len(selectedFiles) :
          /\ selectedFiles' = SubSeq(selectedFiles, 1, index - 1)
                                 \o SubSeq(selectedFiles, index + 1, Len(selectedFiles))
          /\ renders' = renders + 1
          /\ EffectOnFiles(selectedFiles')
    /\ AppFrame

\* onClear: setFiles([]); setResult(null); setExcelResult(null), then the
\* effect for the new (empty) list.
onClear ==
    /\ pc = "app"
    /\ renders < MaxRenders
    /\ selectedFiles' = <<>>
    /\ renders' = renders + 1
    /\ EffectOnFiles(selectedFiles')
    /\ AppFrame

\* One file.text() of a call in flight resolves.  After the last one
\* processCsvFiles resolves and handleProcess runs to its end without another
\* wait: setResult(processed) and setExcelResult(withPageNumbers).
FileTextResolves ==
    /\ pc = "app"
    /\ \E r \in running :
          IF r.read + 1 < Len(r.files)
          THEN /\ running' = (running \ {r}) \cup {[r EXCEPT !.read = r.read + 1]}
               /\ UNCHANGED <<appResult, excelResult>>
          ELSE /\ running' = running \ {r}
               /\ appResult' = ResultOf(r.files, caseInsensitive)
               /\ excelResult' = ResultOf(r.files, caseInsensitive)
    /\ UNCHANGED <<selectedFiles, renders>>
    /\ AppFrame

InitApp ==
    /\ nFiles = 0
    /\ caseInsensitive = FALSE
    /\ preserveOrder = TRUE
    /\ pc = "app"
    /\ NoResult
    /\ val = EmptyText
    /\ priority = 0
    /\ NoNumbering /\ NoApp /\ NoExport /\ NoPages /\ NoExcel

NextApp == onDrop \/ removeFile \/ onClear \/ FileTextResolves

SpecApp == InitApp /\ [][NextApp]_vars

-----------------------------------------------------------------------------
(* Properties *)

Range(seq) == {seq[k] : k \in 1..Len(seq)}

Finished == pc = "done"

AssetKey == globalSchema[assetNumberCol].internalKey
DoneKey == globalSchema[doneCol].internalKey

IdOf(row) == Trim(Cell(row, AssetKey))
StatusOf(row) == Trim(Cell(row, DoneKey))

\* The rows of seq at the positions in idx, in order.
RECURSIVE RowsAt(_, _, _)
RowsAt(seq, idx, k) ==
    IF k > Len(seq) THEN <<>>
    ELSE (IF k \in idx THEN <<seq[k]>> ELSE <<>>) \o RowsAt(seq, idx, k + 1)

\* The two files of the example of the specification.
FileA == <<HeaderA, RowA>>
FileB == <<HeaderB, RowB>>

\* C1: every returned record has exactly the internalKeys of the returned
\* schema, also a record of an earlier file when a later file appended columns.
C1_RecordsHaveSchemaKeys ==
    Finished =>
        \A row \in Range(combinedDeduped) \cup Range(done) \cup Range(todo) :
            DOMAIN row = InternalKeys(globalSchema)

\* C2: with the identifier column present, each non-blank trimmed identifier
\* has exactly one record in combinedDeduped, and it is the first record
\* with that identifier in the (possibly sorted) sequence of accepted rows.
C2_FirstOccurrenceKept ==
    (Finished /\ hasAssetNumberColumn) =>
        /\ \A j \in 1..Len(sortedData) :
              LET v == IdOf(sortedData[j])
                  first == CHOOSE f \in 1..Len(sortedData) :
                              /\ IdOf(sortedData[f]) = v
                              /\ \A m \in 1..(f - 1) : IdOf(sortedData[m]) # v
                  hits == {k \in 1..Len(combinedDeduped) : IdOf(combinedDeduped[k]) = v}
              IN  v # EmptyText =>
                     /\ Cardinality(hits) = 1
                     /\ \A k \in hits : combinedDeduped[k] = sortedData[first]
        /\ Range(combinedDeduped) \subseteq Range(sortedData)

C2_Witness ==
    /\ Finished
    /\ hasAssetNumberColumn
    /\ ~preserveOrder
    /\ sortedData # allRows
    /\ Len(combinedDeduped) < Len(sortedData)
    /\ \E k \in 1..Len(combinedDeduped) : Cell(combinedDeduped[k], AssetKey) # IdOf(combinedDeduped[k])

\* C3: deduplication never removes a record whose trimmed identifier is
\* blank, and a blank identifier is never in the seen-set.
C3_BlankIdentifiersKept ==
    (Finished /\ hasAssetNumberColumn) =>
        LET Blank(row) == IdOf(row) = EmptyText
        IN  /\ SelectSeq(combinedDeduped, Blank) = SelectSeq(sortedData, Blank)
            /\ Len(SelectSeq(combinedDeduped, Blank)) = Len(SelectSeq(allRows, Blank))
            /\ EmptyText \notin seen

C3_Witness ==
    /\ Finished
    /\ hasAssetNumberColumn
    /\ Len(allRows) = 3
    /\ Len(combinedDeduped) = 3
    /\ \A k \in 1..3 : IdOf(combinedDeduped[k]) = EmptyText
    /\ \E k \in 1..3 : Cell(combinedDeduped[k], AssetKey) # EmptyText

\* C4: with the status column present, done and todo partition
\* combinedDeduped: todo is the subsequence of the records whose trimmed
\* (lower-cased if caseInsensitive) status is the not-done literal, done is
\* the subsequence of the others, and no record is in both.
C4_DoneTodoPartition ==
    (Finished /\ hasDoneColumn) =>
        LET NotDone(row) == IF caseInsensitive
                            THEN ToLowerCase(StatusOf(row)) = <<"n", "o">>
                            ELSE StatusOf(row) = <<"N", "o">>
            todoAt == {k \in 1..Len(combinedDeduped) : NotDone(combinedDeduped[k])}
        IN  /\ todo = RowsAt(combinedDeduped, todoAt, 1)
            /\ done = RowsAt(combinedDeduped, (1..Len(combinedDeduped)) \ todoAt, 1)
            /\ Range(done) \cap Range(todo) = {}
            /\ Len(done) + Len(todo) = Len(combinedDeduped)

C4_Witness ==
    /\ Finished
    /\ hasDoneColumn
    /\ caseInsensitive
    /\ Len(done) >= 1
    /\ \E k \in 1..Len(todo) : StatusOf(todo[k]) # NoLiteral

\* C5: when the app merges two files that carry the same Asset number, once
\* with Done? = No and once with Done? = Yes, the row kept in the combined
\* output is the Yes row, whichever file was uploaded first.
C5_YesRowWinsInApp ==
    (/\ Finished
     /\ HandleProcessCall
     /\ Len(files) = 2
     /\ \A f \in 1..2 : Len(files[f]) = 2
     /\ Len(allRows) = 2
     /\ IdOf(allRows[1]) = IdOf(allRows[2])
     /\ IdOf(allRows[1]) # EmptyText
     /\ {StatusOf(allRows[1]), StatusOf(allRows[2])} = {YesLiteral, NoLiteral})
    => /\ Len(combinedDeduped) = 1
       /\ StatusOf(combinedDeduped[1]) = YesLiteral

\* C6: with preserveOrder = false, when two accepted records share a
\* non-blank identifier, one with status Yes and one with status No, the
\* survivor of deduplication is a Yes record whatever the input order; for
\* the example (A: A1/No, B: A1/Yes) done is exactly the A1/Yes row and todo
\* is empty.
C6_YesSurvivesWhenSorted ==
    (Finished /\ ~preserveOrder /\ hasDoneColumn /\ hasAssetNumberColumn) =>
        /\ \A a, b \in 1..Len(allRows) :
              (/\ IdOf(allRows[a]) = IdOf(allRows[b])
               /\ IdOf(allRows[a]) # EmptyText
               /\ StatusOf(allRows[a]) = YesLiteral
               /\ StatusOf(allRows[b]) = NoLiteral)
              => \A k \in 1..Len(combinedDeduped) :
                    IdOf(combinedDeduped[k]) = IdOf(allRows[a]) =>
                        IF caseInsensitive
                        THEN ToLowerCase(StatusOf(combinedDeduped[k])) = <<"y", "e", "s">>
                        ELSE StatusOf(combinedDeduped[k]) = YesLiteral
        /\ files \in {<<FileA, FileB>>, <<FileB, FileA>>} =>
              /\ Len(done) = 1
              /\ IdOf(done[1]) = A1
              /\ StatusOf(done[1]) = YesLiteral
              /\ Cell(done[1], Moteur \o OccLiteral \o <<"1">>) = <<"2", "2", "2">>
              /\ todo = <<>>

C6_Witness ==
    /\ Finished
    /\ ~preserveOrder
    /\ files = <<FileA, FileB>>
    /\ Len(done) = 1
    /\ StatusOf(allRows[1]) = NoLiteral

C8_InternalKeysDistinct ==
    \A k, m \in 1..Len(globalSchema) :
        k # m => globalSchema[k].internalKey # globalSchema[m].internalKey

\* C9: deduplication is idempotent: applied to its own output it returns
\* the same sequence of records.
C9_DedupeIdempotent ==
    (Finished /\ hasAssetNumberColumn) =>
        Dedupe(combinedDeduped, AssetKey) = combinedDeduped

C9_Witness ==
    /\ Finished
    /\ hasAssetNumberColumn
    /\ Len(allRows) = 3
    /\ Len(combinedDeduped) = 2
    /\ \E k \in 1..2 : IdOf(combinedDeduped[k]) # EmptyText

\* C10: the sort priority is a total function of the trimmed status value:
\* Yes gives 1, Nlp gives 3, blank gives 4, No gives 5, any other non-blank
\* value gives 2; the literals are compared exactly when caseInsensitive is
\* false and without regard to letter case when it is true.
C10_PriorityTable ==
    (pc = "priority" /\ priority # 0) =>
        LET t == Trim(val)
            SameLetter(c, d) ==
                \/ c = d
                \/ caseInsensitive /\ c \in DOMAIN UpperToLower /\ UpperToLower[c] = d
                \/ caseInsensitive /\ d \in DOMAIN UpperToLower /\ UpperToLower[d] = c
            Is(literal) ==
                /\ Len(t) = Len(literal)
                /\ \A k \in 1..Len(t) : SameLetter(t[k], literal[k])
        IN  priority = CASE Is(<<"Y", "e", "s">>) -> 1
                         [] Is(<<"N", "l", "p">>) -> 3
                         [] t = <<>> -> 4
                         [] Is(<<"N", "o">>) -> 5
                         [] OTHER -> 2

C10_Witness ==
    /\ pc = "priority"
    /\ priority = 3
    /\ caseInsensitive
    /\ Trim(val) # NlpLiteral
    /\ Trim(val) # val

\* The injective maps of 1..n onto itself.
\* C11: when sorting is enabled and the Done? column exists, the sorted
\* sequence is a rearrangement of the accepted rows in ascending priority
\* in which rows of equal priority keep their ingestion order: it is the
\* rows of priority 1 in ingestion order, then those of priority 2, and so
\* on up to priority 5.
C11_StableSort ==
    (Finished /\ ~preserveOrder /\ hasDoneColumn) =>
        LET WithPriority(p) ==
                LET Keep(row) == getSortPriority(Cell(row, DoneKey), caseInsensitive) = p
                IN  SelectSeq(allRows, Keep)
        IN  sortedData = WithPriority(1) \o WithPriority(2) \o WithPriority(3)
                             \o WithPriority(4) \o WithPriority(5)

C11_Witness ==
    /\ Finished
    /\ ~preserveOrder
    /\ hasDoneColumn
    /\ Len(allRows) = 3
    /\ sortedData # allRows
    /\ \E j \in 1..2 :
          /\ sortedData[j] # sortedData[j + 1]
          /\ getSortPriority(Cell(sortedData[j], DoneKey), caseInsensitive)
                = getSortPriority(Cell(sortedData[j + 1], DoneKey), caseInsensitive)

\* No descriptor of the returned schema has the trimmed display name `name`.
NoColumnNamed(name) ==
    \A k \in 1..Len(globalSchema) : Trim(globalSchema[k].displayName) # name

\* C12: without a column whose trimmed display name is "Asset number" the
\* call still returns, deduplication is skipped (combinedDeduped is the whole
\* possibly sorted sequence, as long as allRowsCount) and errors holds the
\* message "Missing column: Asset number (dedupe skipped)"; with the column
\* the message is absent.
C12_MissingAssetNumber ==
    Finished =>
        /\ NoColumnNamed(AssetNumberLiteral) =>
              /\ ~hasAssetNumberColumn
              /\ combinedDeduped = sortedData
              /\ Len(combinedDeduped) = allRowsCount
              /\ MissingAssetNumber \in Range(errors)
        /\ ~NoColumnNamed(AssetNumberLiteral) => MissingAssetNumber \notin Range(errors)

C12_Witness ==
    /\ Finished
    /\ NoColumnNamed(AssetNumberLiteral)
    /\ allRowsCount = 2
    /\ Len(combinedDeduped) = 2
    /\ combinedDeduped[1] = combinedDeduped[2]

\* C13: without a column whose trimmed display name is "Done?" the call
\* still returns, done and todo are empty, the rows are not sorted even when
\* preserveOrder is false, hasDoneColumn is false and errors holds the
\* message "Missing column: Done?"; with the column the message is absent.
C13_MissingDone ==
    Finished =>
        /\ NoColumnNamed(DoneLiteral) =>
              /\ ~hasDoneColumn
              /\ done = <<>>
              /\ todo = <<>>
              /\ sortedData = allRows
              /\ MissingDone \in Range(errors)
        /\ ~NoColumnNamed(DoneLiteral) => MissingDone \notin Range(errors)

C13_Witness ==
    /\ Finished
    /\ NoColumnNamed(DoneLiteral)
    /\ ~preserveOrder
    /\ allRowsCount = 2
    /\ combinedDeduped # <<>>
    /\ done = <<>> /\ todo = <<>>


\* A line with at least one character that is not white space.
NonBlank(row) ==
    \E k \in 1..Len(row) : \E c \in 1..Len(row[k]) : row[k][c] \notin WhiteSpace

\* The data lines of a text: those after its header, the first line that is not blank.
RECURSIVE AfterHeader(_)
AfterHeader(lines) ==
    IF lines = <<>> THEN <<>>
    ELSE IF NonBlank(Head(lines)) THEN Tail(lines) ELSE AfterHeader(Tail(lines))

RECURSIVE NonBlankDataLines(_)
NonBlankDataLines(ts) ==
    IF ts = <<>> THEN <<>>
    ELSE SelectSeq(AfterHeader(Head(ts)), NonBlank) \o NonBlankDataLines(Tail(ts))

\* C14: a data row is dropped exactly when it has no cell or only empty or
\* blank cells: allRowsCount is the number of data rows of all files with a
\* character that is not white space, which is also the number of records
\* before deduplication; with one file the records are those rows, in order.
C14_BlankRowsDiscarded ==
    Finished =>
        LET kept == NonBlankDataLines(texts)
        IN  /\ allRowsCount = Len(kept)
            /\ Len(allRows) = allRowsCount
            /\ Len(sortedData) = allRowsCount
            /\ nFiles = 1 =>
                  \A k \in 1..Len(allRows) :
                     Cell(allRows[k], globalSchema[1].internalKey) = kept[k][1]

C14_Witness ==
    /\ Finished
    /\ nFiles = 1
    /\ Len(texts[1]) = 3
    /\ NonBlank(texts[1][1])
    /\ ~NonBlank(texts[1][2])
    /\ NonBlank(texts[1][3])
    /\ allRowsCount = 1
    /\ Len(combinedDeduped) = 1


\* The records handed to exportToCsv by the download.
Exported ==
    CASE tab = "combined" -> combinedDeduped
      [] tab = "done" -> done
      [] tab = "todo" -> todo
      [] OTHER -> <<>>

\* C20: the exported header row is the display names of the returned schema
\* in schema order, repeated names included and unchanged, so that with one
\* input file it is that file's header row; and every exported data row
\* holds, per schema column, the record's value under that column's
\* internalKey, or the empty text when the record has no such key.
C20_ExportPreservesHeadersAndCells ==
    tab # "none" =>
        /\ Len(csvContent.fields) = Len(globalSchema)
        /\ \A k \in 1..Len(globalSchema) :
              csvContent.fields[k] = globalSchema[k].displayName
        /\ (nFiles = 1 /\ files[1] # <<>>) => csvContent.fields = files[1][1]
        /\ Len(csvContent.data) = Len(Exported)
        /\ \A r \in 1..Len(Exported) :
              /\ Len(csvContent.data[r]) = Len(globalSchema)
              /\ \A k \in 1..Len(globalSchema) :
                    LET key == globalSchema[k].internalKey
                    IN  csvContent.data[r][k] =
                            IF key \in DOMAIN Exported[r] THEN Exported[r][key]
                            ELSE EmptyText

C20_Witness ==
    /\ tab = "combined"
    /\ nFiles = 1
    /\ Len(csvContent.fields) = 4
    /\ csvContent.fields[3] = csvContent.fields[4]
    /\ Len(csvContent.data) = 2
    /\ csvContent.data[1][3] # csvContent.data[1][4]


\* The (area, identifier) pair of a record, a blank side replaced by "Unknown".
PairOf(eq) == <<OrUnknown(eq.area), OrUnknown(eq.assetNumber)>>

\* The page number a record of the input has in the records res.
PageIn(res, eq) ==
    LET r == CHOOSE r \in Range(res) :
                 /\ r.area = eq.area
                 /\ r.assetNumber = eq.assetNumber
                 /\ r.uniqueRowId = eq.uniqueRowId
    IN  r.pageNumber

\* The positions of the input where a pair occurs for the first time.
FirstOfPair(k) == \A j \in 1..(k - 1) : PairOf(equipment[j]) # PairOf(equipment[k])

\* The input with the records at positions j and k exchanged.
Exchanged(j, k) ==
    [m \in 1..Len(equipment) |->
        IF m = j THEN equipment[k] ELSE IF m = k THEN equipment[j] ELSE equipment[m]]

\* C15: the groups, each one (area, identifier) pair, are numbered 1, 2, 3,
\* ... in the order of their first record in the input: the first record of
\* the n-th pair to appear has page n; and exchanging two records of one
\* pair changes no record's page number.
C15_PagesInFirstEncounterOrder ==
    pc = "paged" =>
        /\ \A k \in 1..Len(equipment) :
              FirstOfPair(k) =>
                 PageIn(result, equipment[k])
                    = Cardinality({j \in 1..k : FirstOfPair(j)})
        /\ \A j, k \in 1..Len(equipment) :
              PairOf(equipment[j]) = PairOf(equipment[k]) =>
                 \A m \in 1..Len(equipment) :
                    PageIn(assignPageNumbers(Exchanged(j, k)), equipment[m])
                       = PageIn(result, equipment[m])

\* C16: two records of one call have the same page number exactly when
\* their (area, identifier) pairs, a blank side replaced by "Unknown", are equal.
C16_SamePageIffSamePair ==
    pc = "paged" =>
        \A j, k \in 1..Len(result) :
           (result[j].pageNumber = result[k].pageNumber)
              <=> (PairOf(result[j]) = PairOf(result[k]))


Classified == pc = "classified"

\* The cell of a row under the first column whose trimmed display name is
\* `name`, as written in the file; the empty text without such a column.
CellNamed(row, name) ==
    IF NoColumnNamed(name) THEN EmptyText
    ELSE LET k == CHOOSE k \in 1..Len(globalSchema) :
                     /\ Trim(globalSchema[k].displayName) = name
                     /\ \A m \in 1..(k - 1) : Trim(globalSchema[m].displayName) # name
         IN  Cell(row, globalSchema[k].internalKey)

IsCriticalRow(row) ==
    \/ Trim(CellNamed(row, CriticalLiteral)) = <<"C">>
    \/ Trim(CellNamed(row, CritNumLiteral)) = <<"C">>

IsComplicatedRow(row) ==
    ToLowerCase(Trim(CellNamed(row, ComplicatedLiteral))) = <<"c", "o", "m", "p", "l", "i", "c", "a", "t", "e", "d">>

\* C17: the criticality label is "Critical & Complicated" when the record is
\* critical and complicated, "Critical" when it is critical only,
\* "Complicated" when it is complicated only and empty otherwise; critical:
\* the trimmed CRITICAL or CRIT # cell is "C"; complicated: the trimmed
\* Complicated cell is "complicated" whatever the case of its letters.
C17_CriticalityLabel ==
    Classified =>
        \A k \in 1..Len(processed) :
           LET critical == IsCriticalRow(data[k])
               complicated == IsComplicatedRow(data[k])
           IN  /\ processed[k].isCritical = critical
               /\ processed[k].isComplicated = complicated
               /\ processed[k].criticality =
                     IF critical /\ complicated
                     THEN <<"C", "r", "i", "t", "i", "c", "a", "l", " ", "&", " ", "C", "o", "m", "p", "l", "i", "c", "a", "t", "e", "d">>
                     ELSE IF critical THEN <<"C", "r", "i", "t", "i", "c", "a", "l">>
                     ELSE IF complicated THEN <<"C", "o", "m", "p", "l", "i", "c", "a", "t", "e", "d">>
                     ELSE EmptyText

\* The rules of the status, in the order in which they are tried.
StatusRules ==
    <<[parts |-> {<<"n", "o", "t", " ", "a", "c", "c", "e", "s", "s", "i", "b", "l", "e">>,
                 <<"n", "o", "n", " ", "a", "c", "c", "e", "s", "s", "i", "b", "l", "e">>},
       exact |-> {}, out |-> <<"N", "o", "t", " ", "A", "c", "c", "e", "s", "s", "i", "b", "l", "e">>],
      [parts |-> {<<"n", "o", "t", " ", "f", "o", "u", "n", "d">>,
                 <<"p", "a", "s", " ", "t", "r", "o", "u", "v", "é">>},
       exact |-> {}, out |-> <<"N", "o", "t", " ", "F", "o", "u", "n", "d">>],
      [parts |-> {}, exact |-> {<<"n", "l", "p">>}, out |-> <<"N", "L", "P">>],
      [parts |-> {<<"q", "u", "e", "s", "t", "i", "o", "n">>}, exact |-> {},
       out |-> <<"Q", "u", "e", "s", "t", "i", "o", "n">>],
      [parts |-> {<<"o", "u", "t", " ", "o", "f", " ", "s", "c", "o", "p", "e">>,
                 <<"h", "o", "r", "s", " ", "s", "c", "o", "p", "e">>,
                 <<"o", "b", "s", "o", "l", "e", "t", "e">>},
       exact |-> {}, out |-> <<"O", "u", "t", " ", "o", "f", " ", "s", "c", "o", "p", "e">>]>>

RuleMatches(rule, lower) ==
    \/ lower \in rule.exact
    \/ \E part \in rule.parts :
          \E k \in 0..(Len(lower) - Len(part)) : SubSeq(lower, k + 1, k + Len(part)) = part

MatchingRules(lower) == {m \in 1..Len(StatusRules) : RuleMatches(StatusRules[m], lower)}

HorsScope == <<"H", "o", "r", "s", " ", "s", "c", "o", "p", "e">>

\* C18: the status of a record is the result of the first rule, in the
\* stated order, that the trimmed status cell matches whatever the case of
\* its letters, and the trimmed cell itself when no rule matches; "Hors
\* scope" gives "Out of scope" and isDone false.
C18_StatusFirstMatch ==
    Classified =>
        \A k \in 1..Len(processed) :
           LET raw == Trim(CellNamed(data[k], DoneLiteral))
               matching == MatchingRules(ToLowerCase(raw))
           IN  /\ processed[k].status =
                     IF matching = {} THEN raw
                     ELSE StatusRules[CHOOSE m \in matching :
                                         \A n \in matching : m <= n].out
               /\ raw = HorsScope =>
                     /\ processed[k].status = <<"O", "u", "t", " ", "o", "f", " ", "s", "c", "o", "p", "e">>
                     /\ ~processed[k].isDone

C18_Witness ==
    /\ Classified
    /\ Len(processed) = 2
    /\ Cardinality(MatchingRules(ToLowerCase(Trim(CellNamed(data[1], DoneLiteral))))) = 2
    /\ processed[1].status = <<"N", "o", "t", " ", "F", "o", "u", "n", "d">>
    /\ Trim(CellNamed(data[2], DoneLiteral)) = HorsScope
    /\ processed[2].status = <<"O", "u", "t", " ", "o", "f", " ", "s", "c", "o", "p", "e">>
    /\ ~processed[2].isDone

IdentifierBlank(p) == Trim(CellNamed(p.row, AssetNumberLiteral)) = EmptyText

StatusContains(p, part) == Includes(ToLowerCase(p.status), part)

\* The five categories as subsequences of processed, for a given reading
\* of "the record has a comment".
BucketsAre(HasComment(_)) ==
    LET Procedures(p) == p.isDone /\ ~IdentifierBlank(p)
        NotCollected(p) == p.status = <<"N", "o", "t", " ", "F", "o", "u", "n", "d">> \/ IdentifierBlank(p)
        NoLubePoint(p) == p.status = <<"N", "L", "P">>
        Sampled(p) == \/ StatusContains(p, <<"s", "a", "m", "p", "l">>)
                      \/ StatusContains(p, <<"é", "c", "h", "a", "n", "t", "i", "l", "l", "o", "n">>)
        Questions(p) == Includes(p.status, <<"Q", "u", "e", "s", "t", "i", "o", "n">>) \/ HasComment(p)
    IN  /\ byStatus.procedures = SelectSeq(processed, Procedures)
        /\ byStatus.notCollected = SelectSeq(processed, NotCollected)
        /\ byStatus.noLubePoint = SelectSeq(processed, NoLubePoint)
        /\ byStatus.sampled = SelectSeq(processed, Sampled)
        /\ byStatus.questions = SelectSeq(processed, Questions)

CommentCellNonEmpty(p) == CellNamed(p.row, CommentLiteral) # EmptyText

CommentNonBlank(p) == Trim(CellNamed(p.row, CommentLiteral)) # EmptyText

\* C19 as stated: each category is the subsequence of processed, in order,
\* of the records that satisfy its own condition, whatever the other
\* categories hold; the condition of questions being that the status
\* contains "Question" or the Comment/Question cell is not empty.
C19_BucketsCellNonEmpty == Classified => BucketsAre(CommentCellNonEmpty)

\* C19, amended: the same with, for questions, the condition that the
\* status contains "Question" or the trimmed Comment/Question cell is not
\* empty (a cell of white space only is no comment).
C19_BucketsCommentNonBlank == Classified => BucketsAre(CommentNonBlank)

\* The number of categories that hold a record.
BucketCount(p) ==
    Cardinality({b \in {"procedures", "notCollected", "noLubePoint", "sampled",
                        "questions"} : p \in Range(byStatus[b])})

C19_Witness ==
    /\ Classified
    /\ Len(processed) = 2
    /\ BucketCount(processed[1]) = 0
    /\ BucketCount(processed[2]) = 2
    /\ CommentCellNonEmpty(processed[1])
    /\ ~CommentNonBlank(processed[1])


\* The descriptors of a local schema whose internalKey is not in a schema.
NotYetPresent(schema, localSchema) ==
    LET New(col) == col.internalKey \notin InternalKeys(schema)
    IN  SelectSeq(localSchema, New)

\* C21: the canonical schema grows append-only, file by file: a file
\* without rows leaves it as it is; any other file keeps the schema so far
\* as a prefix and appends exactly the descriptors of its local schema whose
\* internalKey was not yet present, in the order of its header; no
\* descriptor occurs twice; and while no file with rows has been read, the
\* schema after the first such file is that file's local schema.
C21_SchemaAppendOnly ==
    [][i' = i + 1 =>
          IF files'[i'] = <<>>
          THEN globalSchema' = globalSchema
          ELSE LET localSchema == LocalSchema(files'[i'][1])
                   n == Len(globalSchema)
               IN  /\ Len(globalSchema') >= n
                   /\ SubSeq(globalSchema', 1, n) = globalSchema
                   /\ SubSeq(globalSchema', n + 1, Len(globalSchema'))
                         = NotYetPresent(globalSchema, localSchema)
                   /\ \A k, m \in 1..Len(globalSchema') :
                         k # m => globalSchema'[k] # globalSchema'[m]
                   /\ (\A f \in 1..i : files[f] = <<>>) => globalSchema' = localSchema
      ]_vars


\* C22: a file without data rows, be it empty or made of a header row
\* only, is skipped: reading it adds no descriptor to the canonical schema
\* and no record, as if the file had not been given.
C22_ZeroRowFileSkipped ==
    [][(i' = i + 1 /\ Len(files'[i']) <= 1) =>
          /\ globalSchema' = globalSchema
          /\ allRows' = allRows
          /\ allRowsCount' = allRowsCount
      ]_vars


\* sub is seq with some of its elements left out.
RECURSIVE IsSubsequence(_, _)
IsSubsequence(sub, seq) ==
    IF sub = <<>> THEN TRUE
    ELSE IF seq = <<>> THEN FALSE
    ELSE IF Head(sub) = Head(seq) THEN IsSubsequence(Tail(sub), Tail(seq))
    ELSE IsSubsequence(sub, Tail(seq))

RECURSIVE RowsWithHeader(_)
RowsWithHeader(fs) ==
    IF fs = <<>> THEN <<>>
    ELSE (IF Head(fs) = <<>> THEN <<>>
          ELSE [r \in 1..(Len(Head(fs)) - 1) |->
                   [headerRow |-> Head(fs)[1], row |-> Head(fs)[r + 1]]])
             \o RowsWithHeader(Tail(fs))

\* C24: the record of an accepted row holds, under the internalKey of the
\* descriptor at position j of its file's local schema, the cell row[j] as
\* written when the row has a cell j and the empty text otherwise, and the
\* empty text under every internalKey of the canonical schema that its
\* file's header lacks; cells beyond the header width are in no record.
C24_CellsUnderLocalKeys ==
    Finished =>
        LET origin == RowsWithHeader(files)
        IN  /\ Len(allRows) = Len(origin)
            /\ \A k \in 1..Len(allRows) :
                  LET localSchema == LocalSchema(origin[k].headerRow)
                      row == origin[k].row
                  IN  /\ \A j \in 1..Len(localSchema) :
                            /\ localSchema[j].internalKey \in DOMAIN allRows[k]
                            /\ allRows[k][localSchema[j].internalKey]
                                  = IF j <= Len(row) THEN row[j] ELSE EmptyText
                      /\ \A key \in InternalKeys(globalSchema) \ InternalKeys(localSchema) :
                            /\ key \in DOMAIN allRows[k]
                            /\ allRows[k][key] = EmptyText
                      /\ DOMAIN allRows[k] \subseteq InternalKeys(globalSchema)


\* The positions of the schema whose cell in the row, trimmed, is a literal
\* or a short code of the category.
MatchingColumns(row, category) ==
    {k \in 1..Len(globalSchema) :
        \E m \in 1..Len(ConditionMarkers) :
           /\ ConditionMarkers[m].category = category
           /\ Trim(Cell(row, globalSchema[k].internalKey))
                 \in {ConditionMarkers[m].literal, ConditionMarkers[m].code}}

\* The label of the value of a cell that matches the category.
LabelOfCell(value, category) ==
    LET m == CHOOSE m \in 1..Len(ConditionMarkers) :
                 /\ ConditionMarkers[m].category = category
                 /\ value \in {ConditionMarkers[m].literal, ConditionMarkers[m].code}
    IN  ConditionMarkers[m].label

Categories == {ConditionMarkers[m].category : m \in 1..Len(ConditionMarkers)}

\* C25: for each category, the condition of a record is the label of the
\* last column in schema order whose trimmed cell is a literal or a short
\* code of that category, whatever the name of the column and whatever the
\* other categories match; without such a column the category is absent.
C25_LastMatchingColumnWins ==
    Classified =>
        \A k \in 1..Len(processed) :
           /\ DOMAIN processed[k].conditions \subseteq Categories
           /\ \A category \in Categories :
                 LET matching == MatchingColumns(data[k], category)
                 IN  IF matching = {}
                     THEN category \notin DOMAIN processed[k].conditions
                     ELSE LET last == CHOOSE c \in matching : \A d \in matching : d <= c
                          IN  /\ category \in DOMAIN processed[k].conditions
                              /\ processed[k].conditions[category]
                                    = LabelOfCell(Trim(Cell(data[k],
                                          globalSchema[last].internalKey)), category)

C25_Witness ==
    /\ Classified
    /\ Len(processed) = 1
    /\ Cardinality(MatchingColumns(data[1], "particle")) = 2
    /\ Cardinality(MatchingColumns(data[1], "orientation")) = 1
    /\ DOMAIN processed[1].conditions = {"particle", "orientation"}
    /\ processed[1].conditions["particle"]
          # LabelOfCell(Trim(Cell(data[1], globalSchema[1].internalKey)), "particle")

-----------------------------------------------------------------------------
(* Page numbers per bucket *)

Numbered == pc = "numbered"

BucketNames == {"procedures", "notCollected", "noLubePoint", "sampled", "questions"}

\* The six arrays of references of an App result, by name.
ArraysOf(res) ==
    [b \in BucketNames \cup {"processed"} |->
        IF b = "processed" THEN res.processed ELSE res.byStatus[b]]

\* C26: numbering the full list and the five buckets leaves every object
\* returned by processWithExcelLogic as it was, without a page number; each
\* numbered array holds new objects that no other array holds, and the page
\* numbers in it are those of that array numbered on its own, whatever the
\* other arrays are.
C26_NumberingLeavesInputs ==
    [][Numbered' =>
          /\ \A o \in DOMAIN heap :
                /\ heap'[o] = heap[o]
                /\ "pageNumber" \notin DOMAIN heap'[o]
          /\ \A b \in DOMAIN ArraysOf(withPageNumbers') :
                LET input == ArraysOf(excelProcessed)[b]
                    output == ArraysOf(withPageNumbers')[b]
                IN  /\ Deref(heap', output) = assignPageNumbers(Deref(heap, input))
                    /\ \A k \in 1..Len(output) : output[k] \notin DOMAIN heap
                    /\ \A c \in DOMAIN ArraysOf(withPageNumbers') \ {b} :
                          Range(output) \cap Range(ArraysOf(withPageNumbers')[c]) = {}
    ]_vars

\* Two records of different groups, the second alone in the bucket
\* `procedures`: its copy has page 2 in the full list and page 1 in the bucket.
C26_Witness ==
    /\ Numbered
    /\ Len(excelProcessed.processed) = 2
    /\ excelProcessed.byStatus.procedures = <<2>>
    /\ heap[withPageNumbers.processed[2]] = Spread(heap[2], 2)
    /\ heap[withPageNumbers.byStatus.procedures[1]] = Spread(heap[2], 1)
    /\ 2 \in Range(excelProcessed.byStatus.questions)

-----------------------------------------------------------------------------
(* Required columns across files *)

\* The cells of a row under the columns of its own header whose trimmed
\* name is `name`.
OwnCells(headerRow, row, name) ==
    {IF j <= Len(row) THEN row[j] ELSE EmptyText :
        j \in {h \in 1..Len(headerRow) : Trim(headerRow[h]) = name}}

\* C27: for every record of a file whose header has a column whose trimmed
\* name is "Done?", the status read by the sort and by the done/to-do split
\* is the cell of that record under that column of its own file, and likewise
\* the identifier read by the deduplication for "Asset number", however the
\* files pad the name with whitespace.
C27_OwnCellUnderRequiredColumn ==
    Finished =>
        LET origin == RowsWithHeader(files)
        IN  /\ Len(allRows) = Len(origin)
            /\ \A k \in 1..Len(allRows) :
                  /\ OwnCells(origin[k].headerRow, origin[k].row, DoneLiteral) # {} =>
                        /\ hasDoneColumn
                        /\ Cell(allRows[k], DoneKey)
                              \in OwnCells(origin[k].headerRow, origin[k].row, DoneLiteral)
                  /\ OwnCells(origin[k].headerRow, origin[k].row, AssetNumberLiteral) # {} =>
                        /\ hasAssetNumberColumn
                        /\ Cell(allRows[k], AssetKey)
                              \in OwnCells(origin[k].headerRow, origin[k].row,
                                           AssetNumberLiteral)

-----------------------------------------------------------------------------
(* Overlapping handleProcess calls *)

\* What the App shows for the current file list when it was computed from it.
LatestResult ==
    IF Len(selectedFiles) > 0 THEN ResultOf(selectedFiles, caseInsensitive) ELSE Null

\* C28: when no handleProcess call is in flight, result and excelResult are
\* those of the current file list and caseInsensitive value, and null when
\* the list is empty: a call started for an earlier list never has the last
\* word.
C28_LatestInputsWin ==
    running = {} => (appResult = LatestResult /\ excelResult = LatestResult)

-----------------------------------------------------------------------------
(* What caseInsensitive changes *)

\* combinedDeduped as steps 3 and 4 compute it from allRows for a value of
\* the flag.
CombinedDedupedFor(ci) ==
    LET processedData == IF hasDoneColumn /\ ~preserveOrder
                         THEN Sort(allRows, DoneKey, ci)
                         ELSE allRows
    IN  IF hasAssetNumberColumn THEN Dedupe(processedData, AssetKey) ELSE processedData

\* C29: identifiers are compared as trimmed, letter case included, whatever
\* caseInsensitive is: a record is dropped only when an earlier record of the
\* sequence given to the deduplication has exactly its trimmed identifier,
\* so records whose identifiers differ in letter case only all survive; and
\* with preserveOrder = true combinedDeduped is the one computed with the
\* other value of the flag.
C29_FlagLeavesDedupeAlone ==
    (Finished /\ hasAssetNumberColumn) =>
        /\ \A k \in 1..Len(sortedData) :
              (\A j \in 1..(k - 1) : IdOf(sortedData[j]) # IdOf(sortedData[k]))
                  => sortedData[k] \in Range(combinedDeduped)
        /\ \A ci \in BOOLEAN :
              Len(CombinedDedupedFor(ci)) = Len(combinedDeduped)
        /\ preserveOrder => combinedDeduped = CombinedDedupedFor(~caseInsensitive)

\* A1 and a1 are both kept, with the flag set, and the flag shows in the
\* split: the record whose status is "no" is to do.
C29_Witness ==
    /\ Finished
    /\ preserveOrder
    /\ caseInsensitive
    /\ Len(combinedDeduped) = 2
    /\ IdOf(combinedDeduped[1]) = A1
    /\ IdOf(combinedDeduped[2]) = LowerA1
    /\ StatusOf(combinedDeduped[2]) = <<"n", "o">>
    /\ todo = combinedDeduped

-----------------------------------------------------------------------------
(* The result of assignPageNumbers as a rearrangement of its input *)

Paged == pc = "paged"

\* A record of the result without its page number.
WithoutPageNumber(eq) == [f \in DOMAIN eq \ {"pageNumber"} |-> eq[f]]

\* The records of a sequence whose (area, identifier) pair is `pair`, without
\* page number, in the order of the sequence.
OfPair(eqs, pair) ==
    LET Keep(eq) == PairOf(eq) = pair
        kept == SelectSeq(eqs, Keep)
    IN  [k \in 1..Len(kept) |-> WithoutPageNumber(kept[k])]

\* C30: the result has the length of the input; every input record is in it
\* as many times as in the input, with a page number added and nothing else
\* changed; the records of one (area, identifier) group are next to one
\* another, in their input order; page numbers never decrease along the
\* result.
C30_ResultIsGroupedPermutation ==
    Paged =>
        /\ Len(result) = Len(equipment)
        /\ \A eq \in Range(equipment) :
              Cardinality({k \in 1..Len(result) : WithoutPageNumber(result[k]) = eq})
                  = Cardinality({k \in 1..Len(equipment) : equipment[k] = eq})
        /\ \A k \in 1..Len(result) :
              /\ DOMAIN result[k] = DOMAIN equipment[1] \cup {"pageNumber"}
              /\ OfPair(result, PairOf(result[k])) = OfPair(equipment, PairOf(result[k]))
        /\ \A j \in 1..Len(result) : \A l \in (j + 1)..Len(result) :
              /\ result[j].pageNumber <= result[l].pageNumber
              /\ PairOf(result[j]) = PairOf(result[l])
                    => \A k \in j..l : PairOf(result[k]) = PairOf(result[j])

====
